---- MODULE Spec2Model ----
(***************************************************************************)
(* Verification model of gtp_rust: the GTPv1 / GTPv2 codec entry points,   *)
(* the v1 extension-header chain, and the two tunnel listeners with their  *)
(* shared statistics block.                                                *)
(***************************************************************************)
EXTENDS Integers, Sequences, FiniteSets, TLC

VARIABLES
    pbuf,       \* codec: the byte buffer handed to a decoder
    pres,       \* codec: the outcome of the last decoder call
    hdr,        \* header: a v1 Header value under push / pop
    hop,        \* header: the last chain operation and what it returned
    msg,        \* packet: the message a Packet owns next to its header
    cfg,        \* listeners: the immutable endpoint parameters
    stats,      \* listeners: the shared Statistics behind the mutex
    applied,    \* listeners: per counter, the increments completed so far
    lock,       \* listeners: who holds the statistics mutex
    buffer,     \* GTP listener: its MTU-sized receive buffer
    gtp,        \* GTP listener thread: position and per-datagram record
    ip          \* IP listener thread: position and per-frame record

pvars == <<pbuf, pres>>
hvars == <<hdr, hop, msg>>
lvars == <<cfg, stats, applied, lock, buffer, gtp, ip>>
vars == <<pbuf, pres, hdr, hop, msg, cfg, stats, applied, lock, buffer, gtp, ip>>

(***************************************************************************)
(* Byte-buf helpers.  Rust slices are 0-based; sequences are 1-based.   *)
(* An index or a sub-slice outside the buf panics in Rust, so every     *)
(* access below is preceded by the bound test the build performs.          *)
(***************************************************************************)
At(buf, i) == buf[i + 1]

Has(buf, n) == Len(buf) >= n

From(buf, pos) == SubSeq(buf, pos + 1, Len(buf))

read_u16(buf, i) == At(buf, i) * 256 + At(buf, i + 1)

\* a u32 is kept as its four big-endian octets (it exceeds the checker's integers)
read_u32(buf, i) == <<At(buf, i), At(buf, i + 1), At(buf, i + 2), At(buf, i + 3)>>

U32(n) == <<0, 0, (n \div 256) % 256, n % 256>>

read_u24(buf, i) == (At(buf, i) * 256 + At(buf, i + 1)) * 256 + At(buf, i + 2)

Zeros(n) == [i \in 1..n |-> 0]

(***************************************************************************)
(* Decoder outcomes.  "Some" and "None" are the two values of Option;      *)
(* "Panic" is an unwinding panic (index out of range, explicit panic!,     *)
(* unwrap on Err); "Hang" is a loop iteration that makes no progress.      *)
(***************************************************************************)
NoHeader == [message_type |-> "-", e |-> 0, s |-> 0, pn |-> 0, teid |-> <<0, 0, 0, 0>>,
             payload_length |-> 0, sequence_number |-> 0, n_pdu_number |-> 0,
             extension_headers |-> <<>>]

NoMessage == [type |-> "-", t_pdu |-> <<>>]

Panic == [kind |-> "Panic", header |-> NoHeader, message |-> NoMessage, length |-> 0, pos |-> 0]

Hang == [kind |-> "Hang", header |-> NoHeader, message |-> NoMessage, length |-> 0, pos |-> 0]

None == [kind |-> "None", header |-> NoHeader, message |-> NoMessage, length |-> 0, pos |-> 0]

Some(h, m, length, pos) ==
    [kind |-> "Some", header |-> h, message |-> m, length |-> length, pos |-> pos]

(***************************************************************************)
(* v1 message types and extension-header types.                            *)
(***************************************************************************)
MessageTypeFromU8(v) ==
    CASE v = 1 -> "EchoRequest"
      [] v = 2 -> "EchoResponse"
      [] v = 16 -> "CreatePDPContextRequest"
      [] v = 255 -> "GPDU"
      [] OTHER -> "Panic"

MessageTypeCode(t) ==
    CASE t = "EchoRequest" -> 1
      [] t = "EchoResponse" -> 2
      [] t = "CreatePDPContextRequest" -> 16
      [] t = "GPDU" -> 255

ExtensionHeaderTypes ==
    {"MbmsSi", "MsInfoChange", "UDPPort", "LongPdcpPduNumber",
     "PdcpPduNum", "SuspendReq", "SuspendRes"}

ExtensionHeaderTypeCode(t) ==
    CASE t = "NoMore" -> 0
      [] t = "MbmsSi" -> 1
      [] t = "MsInfoChange" -> 2
      [] t = "UDPPort" -> 64
      [] t = "LongPdcpPduNumber" -> 130
      [] t = "PdcpPduNum" -> 192
      [] t = "SuspendReq" -> 193
      [] t = "SuspendRes" -> 194

ExtensionHeaderTypeFromU8(v) ==
    CASE v = 0 -> "NoMore"
      [] v = 1 -> "MbmsSi"
      [] v = 2 -> "MsInfoChange"
      [] v = 64 -> "UDPPort"
      [] v = 192 -> "PdcpPduNum"
      [] v = 193 -> "SuspendReq"
      [] v = 194 -> "SuspendRes"
      [] OTHER -> "Panic"

(***************************************************************************)
(* v1 Header: construction and the extension chain.                        *)
(***************************************************************************)
HeaderNew(message_type) ==
    [message_type |-> message_type, e |-> 0, s |-> 0, pn |-> 0, teid |-> <<0, 0, 0, 0>>,
     payload_length |-> 0, sequence_number |-> 0, n_pdu_number |-> 0,
     extension_headers |-> <<>>]

\* a freshly constructed extension header: next type NoMore, value field 0
ExtensionHeaderNew(t) == [type |-> t, next |-> "NoMore", value |-> 0]

set_next_extension_header_type(eh, t) == [eh EXCEPT !.next = t]

push_extension_header(h, eh) ==
    LET len == Len(h.extension_headers)
        linked == IF len > 0
                  THEN [h.extension_headers EXCEPT
                          ![len] = set_next_extension_header_type(@, eh.type)]
                  ELSE h.extension_headers
    IN [h EXCEPT !.e = 1, !.extension_headers = Append(linked, eh)]

\* variant: the new tail keeps the type of the element that was removed
pop_extension_header_keeps_next(h) ==
    LET n == Len(h.extension_headers) IN
    IF n = 0 THEN h
    ELSE LET rest == SubSeq(h.extension_headers, 1, n - 1)
         IN IF Len(rest) > 0
            THEN [h EXCEPT !.extension_headers = rest]
            ELSE [h EXCEPT !.e = 0, !.extension_headers = rest]

pop_extension_header(h) ==
    LET n == Len(h.extension_headers) IN
    IF n = 0 THEN h
    ELSE LET rest == SubSeq(h.extension_headers, 1, n - 1)
             len == Len(rest)
         IN IF len > 0
            THEN [h EXCEPT !.extension_headers =
                     [rest EXCEPT ![len] = set_next_extension_header_type(@, "NoMore")]]
            ELSE [h EXCEPT !.e = 0, !.extension_headers = rest]

pop_result(h) ==
    IF Len(h.extension_headers) = 0 THEN "None" ELSE "Some"

(***************************************************************************)
(* v1 extension-header decoders.  Each returns [kind, eh, pos].            *)
(***************************************************************************)
EhPanic == [kind |-> "Panic", eh |-> ExtensionHeaderNew("-"), pos |-> 0]

EhSome(t, next, value, pos) ==
    [kind |-> "Some", eh |-> [type |-> t, next |-> next, value |-> value], pos |-> pos]

\* MS-Info-Change: length octet, two padding octets, next type (4 octets);
\* MBMS-SI, Suspend-Request and Suspend-Response have the same layout
ParseFixed4(t, buf) ==
    IF ~Has(buf, 1) THEN EhPanic                \* buffer[0]
    ELSE IF ~Has(buf, 4) THEN EhPanic           \* buffer[pos], pos = 3
    ELSE IF ExtensionHeaderTypeFromU8(At(buf, 3)) = "Panic" THEN EhPanic
    ELSE EhSome(t, ExtensionHeaderTypeFromU8(At(buf, 3)), 0, 4)

\* PDCP-PDU-Number and UDP-Port: length, u16 value, next type (4 octets)
ParseU16Value(t, buf) ==
    IF ~Has(buf, 1) THEN EhPanic                \* buffer[0]
    ELSE IF ~Has(buf, 3) THEN EhPanic           \* &buffer[1..3]
    ELSE IF ~Has(buf, 4) THEN EhPanic           \* buffer[pos], pos = 3
    ELSE IF ExtensionHeaderTypeFromU8(At(buf, 3)) = "Panic" THEN EhPanic
    ELSE EhSome(t, ExtensionHeaderTypeFromU8(At(buf, 3)), read_u16(buf, 1), 4)

\* the decoder Header::parse calls for each value of the next-type octet;
\* the LongPdcpPduNumber arm calls the MBMS-SI decoder and stores MbmsSi
ExtensionHeaderParse(t, buf) ==
    CASE t = "MbmsSi" -> ParseFixed4("MbmsSi", buf)
      [] t = "LongPdcpPduNumber" -> ParseFixed4("MbmsSi", buf)
      [] t = "MsInfoChange" -> ParseFixed4("MsInfoChange", buf)
      [] t = "PdcpPduNum" -> ParseU16Value("PdcpPduNum", buf)
      [] t = "SuspendReq" -> ParseFixed4("SuspendReq", buf)
      [] t = "SuspendRes" -> ParseFixed4("SuspendRes", buf)
      [] t = "UDPPort" -> ParseU16Value("UDPPort", buf)

(***************************************************************************)
(* v1 Header::parse.                                                       *)
(***************************************************************************)
parse_flags(flags) ==
    [version |-> (flags \div 32) % 8, pt |-> (flags \div 16) % 2,
     e |-> (flags \div 4) % 2, s |-> (flags \div 2) % 2, pn |-> flags % 2]

\* the loop over the extension chain: next_octet is the raw next-type octet
RECURSIVE ParseExtensionChain(_, _, _, _, _)
ParseExtensionChain(buf, h, length, pos, next_octet) ==
    LET t == ExtensionHeaderTypeFromU8(next_octet) IN
    IF t = "Panic" THEN Panic
    ELSE IF t = "NoMore" THEN Some(h, NoMessage, length, pos)
    ELSE LET r == ExtensionHeaderParse(t, From(buf, pos)) IN
         IF r.kind = "Panic" THEN Panic
         ELSE IF r.kind = "None" THEN Hang
         ELSE ParseExtensionChain(buf, push_extension_header(h, r.eh), length,
                                  pos + r.pos, ExtensionHeaderTypeCode(r.eh.next))

HeaderParseOptional(buf, h0, length, pos0, f) ==
    LET sOk == f.s = 0 \/ Has(buf, pos0 + 2)       \* read_u16(&buffer[pos..])
        h1 == IF f.s = 1 /\ sOk
              THEN [h0 EXCEPT !.sequence_number = read_u16(buf, pos0), !.s = 1]
              ELSE h0
        pos1 == IF f.s = 1 THEN pos0 + 2 ELSE pos0
        pnOk == f.pn = 0 \/ Has(buf, pos1 + 1)     \* buffer[pos]
        h2 == IF f.pn = 1 /\ pnOk
              THEN [h1 EXCEPT !.n_pdu_number = At(buf, pos1), !.pn = 1]
              ELSE h1
        pos2 == IF f.pn = 1 THEN pos1 + 1 ELSE pos1
    IN IF ~sOk THEN Panic
       ELSE IF ~pnOk THEN Panic
       ELSE IF f.e = 0 THEN Some(h2, NoMessage, length, pos2)
       ELSE IF ~Has(buf, pos2 + 1) THEN Panic      \* buffer[pos]
       ELSE ParseExtensionChain(buf, h2, length, pos2 + 1, At(buf, pos2))

HeaderParse(buf) ==
    IF ~Has(buf, 1) THEN Panic                     \* buffer[0]
    ELSE LET f == parse_flags(At(buf, 0)) IN
    IF f.version # 1 THEN None
    ELSE IF f.pt # 1 THEN None
    ELSE IF ~Has(buf, 2) THEN Panic                \* buffer[1]
    ELSE IF MessageTypeFromU8(At(buf, 1)) = "Panic" THEN Panic
    ELSE IF ~Has(buf, 4) THEN Panic                \* &buffer[LENGTH]
    ELSE IF ~Has(buf, 8) THEN Panic                \* &buffer[TEID]
    ELSE HeaderParseOptional(buf,
             [HeaderNew(MessageTypeFromU8(At(buf, 1))) EXCEPT !.teid = read_u32(buf, 4)],
             read_u16(buf, 2), 8, f)

(***************************************************************************)
(* v1 messages and Packet::parse.                                          *)
(***************************************************************************)
\* EchoRequest / EchoResponse carry no IEs: the decoder consumes nothing
EchoParse(t, buf) == [kind |-> "Some", message |-> [type |-> t, t_pdu |-> <<>>], pos |-> 0]

\* G-PDU: the T-PDU is everything after the header
GPDUParse(buf) ==
    [kind |-> "Some", message |-> [type |-> "GPDU", t_pdu |-> buf], pos |-> Len(buf)]

MessageLength(m) == Len(m.t_pdu)

\* Packet::parse dispatches on the header's message type; the
\* CreatePDPContextRequest arm calls the EchoResponse decoder
MessageParse(message_type, buf) ==
    CASE message_type = "EchoRequest" -> EchoParse("EchoRequest", buf)
      [] message_type = "EchoResponse" -> EchoParse("EchoResponse", buf)
      [] message_type = "CreatePDPContextRequest" -> EchoParse("EchoResponse", buf)
      [] message_type = "GPDU" -> GPDUParse(buf)

PacketParse(buf) ==
    LET h == HeaderParse(buf) IN
    IF h.kind # "Some" THEN h
    ELSE LET m == MessageParse(h.header.message_type, From(buf, h.pos)) IN
         IF m.kind # "Some" THEN None
         ELSE Some([h.header EXCEPT !.payload_length = MessageLength(m.message)],
                   m.message, h.length, m.pos)

(***************************************************************************)
(* v2 Header::parse.                                                       *)
(***************************************************************************)
V2MessageTypeTryFrom(value) ==
    CASE value = 1 -> "EchoRequest"
      [] value = 2 -> "EchoResponse"
      [] value = 32 -> "CreateSessionRequest"
      [] value = 33 -> "CreateSessionRequest"
      [] OTHER -> "Err"

V2parse_flags(flags) ==
    [version |-> (flags \div 32) % 8, p |-> (flags \div 16) % 2,
     t |-> (flags \div 8) % 2, mp |-> (flags \div 4) % 2]

V2HeaderNew(message_type) ==
    [message_type |-> message_type, e |-> 0, s |-> 0, pn |-> 0, teid |-> <<0, 0, 0, 0>>,
     payload_length |-> 0, sequence_number |-> 0, n_pdu_number |-> 0,
     extension_headers |-> <<>>, t |-> 0, mp |-> 0, message_priority |-> 0, version |-> 2]

V2HeaderParse(buf) ==
    IF ~Has(buf, 1) THEN Panic                     \* buffer[0]
    ELSE LET f == V2parse_flags(At(buf, 0)) IN
    IF f.version # 2 THEN None
    ELSE IF ~Has(buf, 2) THEN Panic                \* buffer[1]
    ELSE IF V2MessageTypeTryFrom(At(buf, 1)) = "Err" THEN None
    ELSE IF ~Has(buf, 4) THEN Panic                \* &buffer[LENGTH]
    ELSE LET h0 == V2HeaderNew(V2MessageTypeTryFrom(At(buf, 1)))
             tOk == f.t = 0 \/ Has(buf, 8)         \* read_u32(&buffer[pos..])
             h1 == IF f.t = 1 /\ tOk
                   THEN [h0 EXCEPT !.teid = read_u32(buf, 4), !.t = 1]
                   ELSE h0
             pos1 == IF f.t = 1 THEN 8 ELSE 4
         IN IF ~tOk THEN Panic
            ELSE IF f.p = 1 THEN None
            ELSE IF ~Has(buf, pos1 + 3) THEN Panic \* read_uint(&buffer[pos..], 3)
            ELSE IF f.mp = 1 /\ ~Has(buf, pos1 + 4) THEN Panic  \* buffer[pos]
            ELSE Some(IF f.mp = 1
                      THEN [h1 EXCEPT !.sequence_number = read_u24(buf, pos1),
                                      !.message_priority = (At(buf, pos1 + 3) \div 16) % 16,
                                      !.mp = 1]
                      ELSE [h1 EXCEPT !.sequence_number = read_u24(buf, pos1)],
                      NoMessage, read_u16(buf, 2), pos1 + 4)

(***************************************************************************)
(* Codec specification: a decoder is applied to a buffer.  The buffers are *)
(* captures from the repository's tests, truncated at every length, with   *)
(* one octet replaced by an arbitrary value, or followed by padding.       *)
(***************************************************************************)
MaxPad == 1

ParseSamples ==
    { <<48, 1, 0, 0, 0, 0, 0, 0>>,
      <<51, 1, 0, 3, 0, 0, 0, 0, 18, 52, 18>>,
      <<52, 1, 0, 13, 18, 52, 86, 120, 1,
        1, 255, 255, 193, 1, 255, 255, 192, 1, 18, 52, 0>>,
      <<48, 255, 0, 4, 135, 101, 67, 33, 69, 0, 0, 84>>,
      <<64, 1, 0, 4, 0, 0, 1, 0>>,
      <<76, 32, 0, 8, 0, 0, 0, 1, 0, 0, 1, 16>> }

ByteValues == {0, 1, 3, 16, 48, 64, 130, 192, 255}

Replace(buf, i, b) == [buf EXCEPT ![i] = b]

ParseInputs ==
    UNION { { SubSeq(smp, 1, n) : n \in 0..Len(smp) }
            \cup { Replace(smp, i, b) : i \in 1..Len(smp), b \in ByteValues }
            \cup { smp \o Zeros(k) : k \in 0..MaxPad }
          : smp \in ParseSamples }

Idle == [decoder |-> "-", result |-> [None EXCEPT !.kind = "Idle"]]

PIdle == pbuf = <<>> /\ pres = Idle

DecodeV1Packet ==
    /\ pres = Idle
    /\ pres' = [decoder |-> "v1::Packet::parse", result |-> PacketParse(pbuf)]
    /\ UNCHANGED pbuf

DecodeV1Header ==
    /\ pres = Idle
    /\ pres' = [decoder |-> "v1::Header::parse", result |-> HeaderParse(pbuf)]
    /\ UNCHANGED pbuf

DecodeV2Header ==
    /\ pres = Idle
    /\ pres' = [decoder |-> "v2::Header::parse", result |-> V2HeaderParse(pbuf)]
    /\ UNCHANGED pbuf

(***************************************************************************)
(* Header specification: push_extension_header / pop_extension_header on a *)
(* header built by Header::new.                                            *)
(***************************************************************************)
MaxChain == 3

MessageTypes == {"EchoRequest", "EchoResponse", "CreatePDPContextRequest", "GPDU"}

\* extension headers as the callers build them: new(), then optionally a
\* setter for the value field of the types that carry one
ValueSamples == {0, 4660}

FreshExtensionHeaders ==
    { ExtensionHeaderNew(t) : t \in ExtensionHeaderTypes }
    \cup { [ExtensionHeaderNew(t) EXCEPT !.value = v] :
             t \in {"PdcpPduNum", "UDPPort", "LongPdcpPduNumber"}, v \in ValueSamples }

HIdle ==
    /\ hdr = HeaderNew("EchoRequest")
    /\ hop = [op |-> "new", ret |-> "-"]
    /\ msg = NoMessage

PushExtensionHeader ==
    /\ Len(hdr.extension_headers) < MaxChain
    /\ \E eh \in FreshExtensionHeaders :
         /\ hdr' = push_extension_header(hdr, eh)
         /\ hop' = [op |-> "push", ret |-> "-"]

PopExtensionHeader ==
    /\ hdr' = pop_extension_header(hdr)
    /\ hop' = [op |-> "pop", ret |-> pop_result(hdr)]

(***************************************************************************)
(* v1 Header::generate and Packet::generate (the octets written).          *)
(***************************************************************************)
ExtensionHeaderLength(eh) == IF eh.type = "LongPdcpPduNumber" THEN 8 ELSE 4

ExtensionHeaderGenerate(eh) ==
    CASE eh.type \in {"MbmsSi", "MsInfoChange", "SuspendReq", "SuspendRes"} ->
           <<1, 255, 255, ExtensionHeaderTypeCode(eh.next)>>
      [] eh.type \in {"PdcpPduNum", "UDPPort"} ->
           <<1, (eh.value \div 256) % 256, eh.value % 256, ExtensionHeaderTypeCode(eh.next)>>
      [] eh.type = "LongPdcpPduNumber" ->
           <<2, (eh.value \div 65536) % 256, (eh.value \div 256) % 256, eh.value % 256,
             0, 0, 0, ExtensionHeaderTypeCode(eh.next)>>

RECURSIVE SumExtensionLengths(_)
SumExtensionLengths(chain) ==
    IF chain = <<>> THEN 0
    ELSE ExtensionHeaderLength(Head(chain)) + SumExtensionLengths(Tail(chain))

\* the additions of Header::length, before the u16 width is applied
HeaderLengthSum(h) ==
    h.payload_length + (IF h.s = 1 THEN 2 ELSE 0) + (IF h.pn = 1 THEN 1 ELSE 0)
      + (IF h.e = 1 THEN 1 ELSE 0) + SumExtensionLengths(h.extension_headers)

\* a u16 addition that overflows panics in a build with overflow checks
\* and wraps in a build without them
HeaderLengthOverflows(h) == HeaderLengthSum(h) > 65535

HeaderLength(h) == HeaderLengthSum(h) % 65536

generate_flags(h) == 1 * 32 + 1 * 16 + h.e * 4 + h.s * 2 + h.pn

be16(v) == <<(v \div 256) % 256, v % 256>>

be32(v) == v

RECURSIVE GenerateChain(_)
GenerateChain(chain) ==
    IF chain = <<>> THEN <<>>
    ELSE ExtensionHeaderGenerate(Head(chain)) \o GenerateChain(Tail(chain))

HeaderGenerate(h) ==
    <<generate_flags(h), MessageTypeCode(h.message_type)>>
      \o be16(HeaderLength(h)) \o be32(h.teid)
      \o (IF h.s = 1 THEN be16(h.sequence_number) ELSE <<>>)
      \o (IF h.pn = 1 THEN <<h.n_pdu_number>> ELSE <<>>)
      \o (IF h.e = 1
          THEN (IF Len(h.extension_headers) > 0
                THEN <<ExtensionHeaderTypeCode(h.extension_headers[1].type)>>
                ELSE <<0>>) \o GenerateChain(h.extension_headers)
          ELSE <<>>)

set_payload_length(h, payload_length) == [h EXCEPT !.payload_length = payload_length]

\* variant: generate trusts the payload length the header already holds
StampPayloadLength_keeps_stored(h, m) == h

\* Packet::generate first stamps the header with message.length()
StampPayloadLength(h, m) == set_payload_length(h, MessageLength(m))

\* Packet::generate: stamp the payload length, then header and message
PacketGenerate(h, m) ==
    HeaderGenerate(StampPayloadLength(h, m)) \o m.t_pdu

(***************************************************************************)
(* A v1 packet under construction: Packet::new, the header setters, the    *)
(* chain operations, attach_packet, then generate and a parse of the       *)
(* octets generate wrote.                                                   *)
(***************************************************************************)
MaxCodecChain == 2

\* arguments of set_payload_length (any u16): small, and next to the top
PayloadLengths == {4660, 65532, 65535}

\* arguments of attach_packet
TPduSamples == {<<69, 0>>, <<69, 0, 0, 84>>}

MessageNew(message_type) == [type |-> message_type, t_pdu |-> <<>>]

Alive == msg.type \in MessageTypes /\ hop.ret # "Panic"

Mutated(op) == hop' = [op |-> op, ret |-> "-"] /\ pbuf' = <<>> /\ pres' = Idle

CodecPush ==
    /\ Alive
    /\ Len(hdr.extension_headers) < MaxCodecChain
    /\ \E eh \in FreshExtensionHeaders : hdr' = push_extension_header(hdr, eh)
    /\ Mutated("push")
    /\ UNCHANGED msg

CodecPop ==
    /\ Alive
    /\ hdr' = pop_extension_header(hdr)
    /\ hop' = [op |-> "pop", ret |-> pop_result(hdr)]
    /\ pbuf' = <<>> /\ pres' = Idle
    /\ UNCHANGED msg

SetPayloadLength ==
    /\ Alive
    /\ \E v \in PayloadLengths : hdr' = set_payload_length(hdr, v)
    /\ Mutated("set_payload_length")
    /\ UNCHANGED msg

EnableSequenceNumber ==
    /\ Alive
    /\ hdr' = [hdr EXCEPT !.s = 1]
    /\ Mutated("enable_sequence_number")
    /\ UNCHANGED msg

DisableSequenceNumber ==
    /\ Alive
    /\ hdr' = [hdr EXCEPT !.s = 0]
    /\ Mutated("disable_sequence_number")
    /\ UNCHANGED msg

EnableNPduNumber ==
    /\ Alive
    /\ hdr' = [hdr EXCEPT !.pn = 1]
    /\ Mutated("enable_n_pdu_number")
    /\ UNCHANGED msg

DisableNPduNumber ==
    /\ Alive
    /\ hdr' = [hdr EXCEPT !.pn = 0]
    /\ Mutated("disable_n_pdu_number")
    /\ UNCHANGED msg

\* g_pdu::Message::attach_packet replaces the T-PDU; the other messages
\* return Err and keep their (empty) content
AttachPacket ==
    /\ Alive
    /\ \E t \in TPduSamples :
         IF msg.type = "GPDU"
         THEN msg' = [msg EXCEPT !.t_pdu = t] /\ hop' = [op |-> "attach_packet", ret |-> "Ok"]
         ELSE msg' = msg /\ hop' = [op |-> "attach_packet", ret |-> "Err"]
    /\ pbuf' = <<>> /\ pres' = Idle
    /\ UNCHANGED hdr

\* the builds Header::length can run in when its u16 sum overflows
Builds(h) == IF HeaderLengthOverflows(h) THEN {"checked", "wrapping"} ELSE {"wrapping"}

GenerateHeader ==
    /\ Alive
    /\ \E build \in Builds(hdr) :
         IF build = "checked"
         THEN pbuf' = <<>> /\ hop' = [op |-> "Header::generate", ret |-> "Panic"]
         ELSE pbuf' = HeaderGenerate(hdr) /\ hop' = [op |-> "Header::generate", ret |-> "Some"]
    /\ pres' = Idle
    /\ UNCHANGED <<hdr, msg>>

GeneratePacket ==
    /\ Alive
    /\ hdr' = StampPayloadLength(hdr, msg)
    /\ \E build \in Builds(hdr') :
         IF build = "checked"
         THEN pbuf' = <<>> /\ hop' = [op |-> "Packet::generate", ret |-> "Panic"]
         ELSE pbuf' = PacketGenerate(hdr, msg) /\ hop' = [op |-> "Packet::generate", ret |-> "Some"]
    /\ pres' = Idle
    /\ UNCHANGED msg

ParseGeneratedHeader ==
    /\ hop = [op |-> "Header::generate", ret |-> "Some"]
    /\ pres = Idle
    /\ pres' = [decoder |-> "v1::Header::parse", result |-> HeaderParse(pbuf)]
    /\ UNCHANGED <<pbuf, hvars>>

ParseGeneratedPacket ==
    /\ hop = [op |-> "Packet::generate", ret |-> "Some"]
    /\ pres = Idle
    /\ pres' = [decoder |-> "v1::Packet::parse", result |-> PacketParse(pbuf)]
    /\ UNCHANGED <<pbuf, hvars>>

(***************************************************************************)
(* GTPv2 information elements.  An IE value is a record tagged by `ie`;    *)
(* Option<T> is a sequence of at most one element and Vec<T> a sequence.   *)
(* A decoder returns [kind, ie, pos]: Some((ie, pos)), None, or a panic.   *)
(* `build` is the kind of build: the u16 additions panic on overflow in a  *)
(* "checked" build and wrap in a "wrapping" one.                           *)
(***************************************************************************)
BuildKinds == {"checked", "wrapping"}

NoIE == [ie |-> "-", instance |-> 0]

\* an outcome without a value: "None", "Panic", "Hang" (a loop that does not
\* advance) or "Unmodelled" (an IE type whose decoder is outside this model)
IeResult(kind) == [kind |-> kind, ie |-> NoIE, pos |-> 0]

\* `length + 4` with length: u16; -1 stands for the overflow panic
AddU16(a, b, build) ==
    IF a + b <= 65535 THEN a + b
    ELSE IF build = "checked" THEN -1
    ELSE (a + b) % 65536

\* the tail every decoder ends with: Some((ie, (length + 4) as usize))
IeReturn(ie, length, build) ==
    IF AddU16(length, 4, build) < 0 THEN IeResult("Panic")
    ELSE [kind |-> "Some", ie |-> ie, pos |-> AddU16(length, 4, build)]

InformationElementTypeCode(t) ==
    CASE t = "Recovery" -> 3
      [] t = "RATType" -> 82
      [] t = "FTEID" -> 87
      [] t = "APN" -> 71
      [] t = "BearerContext" -> 93
      [] t = "EBI" -> 73
      [] t = "BearerQoS" -> 80
      [] t = "IMSI" -> 1
      [] t = "PDNType" -> 99
      [] t = "PDNAddressAllocation" -> 79
      [] t = "MSISDN" -> 76
      [] t = "UserLocationInformation" -> 86
      [] t = "MEI" -> 75
      [] t = "ServingNetwork" -> 83
      [] t = "SelectionMode" -> 128
      [] t = "APNRestriction" -> 127
      [] t = "AMBR" -> 72
      [] t = "UETimeZone" -> 114
      [] t = "ChargingCharacteristics" -> 95
      [] t = "Cause" -> 2

\* TryFrom<u8> for InformationElementType: 75 yields UserLocationInformation
InformationElementTypeTryFrom(value) ==
    CASE value = 3 -> "Recovery"
      [] value = 82 -> "RATType"
      [] value = 87 -> "FTEID"
      [] value = 71 -> "APN"
      [] value = 93 -> "BearerContext"
      [] value = 73 -> "EBI"
      [] value = 80 -> "BearerQoS"
      [] value = 1 -> "IMSI"
      [] value = 99 -> "PDNType"
      [] value = 79 -> "PDNAddressAllocation"
      [] value = 76 -> "MSISDN"
      [] value = 86 -> "UserLocationInformation"
      [] value = 75 -> "UserLocationInformation"
      [] value = 83 -> "ServingNetwork"
      [] value = 128 -> "SelectionMode"
      [] value = 127 -> "APNRestriction"
      [] value = 72 -> "AMBR"
      [] value = 114 -> "UETimeZone"
      [] value = 95 -> "ChargingCharacteristics"
      [] value = 2 -> "Cause"
      [] OTHER -> "Err"

\* InformationElement::skip_parsing: [kind, pos]
SkipParsing(buf, build) ==
    IF ~Has(buf, 3) THEN IeResult("Panic")          \* &buffer[LENGTH]
    ELSE IeReturn(NoIE, read_u16(buf, 1), build)

\* ---- EPS Bearer ID ----
EbiNew(eps_bearer_id, instance) ==
    [ie |-> "EBI", instance |-> instance, eps_bearer_id |-> eps_bearer_id]

EbiLength(ie) == 4 + 1

EbiGenerate(ie) == <<73>> \o be16(EbiLength(ie) - 4) \o <<ie.instance % 16, ie.eps_bearer_id>>

EbiParse(buf, build) ==
    IF ~Has(buf, 5) THEN IeResult("Panic")          \* buffer[0] .. buffer[4]
    ELSE IeReturn(EbiNew(At(buf, 4) % 16, At(buf, 3) % 16), read_u16(buf, 1), build)

\* ---- Bearer QoS: a bitrate is a 40-bit number, kept as five octets ----
U40(n) == <<0, (n \div 16777216) % 256, (n \div 65536) % 256, (n \div 256) % 256, n % 256>>

read_u40(buf, i) == <<At(buf, i), At(buf, i + 1), At(buf, i + 2), At(buf, i + 3), At(buf, i + 4)>>

BearerQosNew(pci, pl, pvi, qci, max_ul, max_dl, guaranteed_ul, guaranteed_dl, instance) ==
    [ie |-> "BearerQoS", instance |-> instance, pci |-> pci, pl |-> pl, pvi |-> pvi,
     qci |-> qci, max_ul_bitrate |-> max_ul, max_dl_bitrate |-> max_dl,
     guaranteed_ul_bitrate |-> guaranteed_ul, guaranteed_dl_bitrate |-> guaranteed_dl]

\* (if pci {0} else {1} << 6) | ((pl & 0xF) << 2) | (if pvi {0} else {1})
BearerQosGenerateFlags(ie) ==
    (IF ie.pci THEN 0 ELSE 1) * 64 + (ie.pl % 16) * 4 + (IF ie.pvi THEN 0 ELSE 1)

\* (pci, pl, pvi)
BearerQosParseFlags(flags) ==
    <<(flags \div 64) % 2 = 1, (flags \div 4) % 16, flags % 2 = 1>>

MaxBitrate == 10000000

\* a 40-bit value above 10_000_000 (which is below 2^24)
ExceedsMaxBitrate(v) ==
    v[1] > 0 \/ v[2] > 0 \/ v[3] * 65536 + v[4] * 256 + v[5] > MaxBitrate

\* the range tests of InformationElement::new: Err(..) creates no value
BearerQosTryNew(pci, pl, pvi, qci, max_ul, max_dl, guaranteed_ul, guaranteed_dl, instance) ==
    IF \/ instance > 15 \/ pl > 15
       \/ \E v \in {max_ul, max_dl, guaranteed_ul, guaranteed_dl} : ExceedsMaxBitrate(v)
    THEN [kind |-> "Err", ie |-> NoIE]
    ELSE [kind |-> "Ok", ie |-> BearerQosNew(pci, pl, pvi, qci, max_ul, max_dl, guaranteed_ul, guaranteed_dl, instance)]

BearerQosLength(ie) == 4 + 22

BearerQosGenerate(ie) ==
    <<80>> \o be16(BearerQosLength(ie) - 4) \o <<ie.instance % 16>>
        \o <<BearerQosGenerateFlags(ie), ie.qci>>
        \o ie.max_ul_bitrate \o ie.max_dl_bitrate
        \o ie.guaranteed_ul_bitrate \o ie.guaranteed_dl_bitrate

BearerQosParse(buf, build) ==
    IF ~Has(buf, 26) THEN IeResult("Panic")         \* buffer[0] .. &buffer[21..26]
    ELSE
        LET flags == BearerQosParseFlags(At(buf, 4)) IN
        IeReturn(BearerQosNew(flags[1], flags[2], flags[3], At(buf, 5),
                              read_u40(buf, 6), read_u40(buf, 11),
                              read_u40(buf, 16), read_u40(buf, 21), At(buf, 3) % 16),
                 read_u16(buf, 1), build)

\* ---- F-TEID: Option<address> is a sequence holding at most one address ----
InterfaceTypes == 0..40

FTeidNew(interface_type, teid, ipv4_address, ipv6_address, instance) ==
    [ie |-> "FTEID", instance |-> instance, interface_type |-> interface_type,
     teid |-> teid, ipv4_address |-> ipv4_address, ipv6_address |-> ipv6_address]

FTeidLength(ie) ==
    4 + 1 + 4 + (IF ie.ipv4_address # <<>> THEN 4 ELSE 0)
              + (IF ie.ipv6_address # <<>> THEN 16 ELSE 0)

\* the flags octet is generate_flags() | interface_type: V4 << 7, V6 << 6 and
\* the type, which has no bit in common with them
FTeidGenerate(ie) ==
    <<87>> \o be16(FTeidLength(ie) - 4) \o <<ie.instance % 16>>
        \o <<(IF ie.ipv4_address # <<>> THEN 128 ELSE 0)
               + (IF ie.ipv6_address # <<>> THEN 64 ELSE 0) + ie.interface_type>>
        \o be32(ie.teid)
        \o (IF ie.ipv4_address # <<>> THEN ie.ipv4_address[1] ELSE <<>>)
        \o (IF ie.ipv6_address # <<>> THEN ie.ipv6_address[1] ELSE <<>>)

FTeidParse(buf, build) ==
    IF ~Has(buf, 9) THEN IeResult("Panic")          \* buffer[0] .. &buffer[5..9]
    ELSE
        LET v4 == (At(buf, 4) \div 128) % 2         \* parse_flags
            v6 == (At(buf, 4) \div 64) % 2
            interface_type == At(buf, 4) % 16       \* buffer[pos] & 0xF
            pos == IF v4 = 1 THEN 13 ELSE 9
        IN
        IF v4 = 1 /\ ~Has(buf, 13) THEN IeResult("Panic")
        ELSE IF v6 = 1 /\ ~Has(buf, pos + 16) THEN IeResult("Panic")
        ELSE IF interface_type \notin InterfaceTypes THEN IeResult("None")
        ELSE IeReturn(FTeidNew(interface_type, read_u32(buf, 5),
                               IF v4 = 1 THEN <<SubSeq(buf, 10, 13)>> ELSE <<>>,
                               IF v6 = 1 THEN <<SubSeq(buf, pos + 1, pos + 16)>> ELSE <<>>,
                               At(buf, 3) % 16),
                      read_u16(buf, 1), build)

\* ---- Cause ----
CauseCodes == (1..19) \cup (64..70) \cup (72..78) \cup (80..98) \cup (100..117) \cup (119..129)

CauseNew(cause_code, cause_source, bearer_context_ie_error, pdn_connection_ie_error, offending_ie, instance) ==
    [ie |-> "Cause", instance |-> instance, cause_code |-> cause_code,
     cause_source |-> cause_source, bearer_context_ie_error |-> bearer_context_ie_error,
     pdn_connection_ie_error |-> pdn_connection_ie_error, offending_ie |-> offending_ie]

CauseLength(ie) == 4 + 2 + (IF ie.offending_ie # <<>> THEN 4 ELSE 0)

\* the flags octet is generateflags(): PCE << 2 | BCE << 1 | CS
CauseGenerate(ie) ==
    <<2>> \o be16(CauseLength(ie) - 4) \o <<ie.instance % 16>>
        \o <<ie.cause_code,
             (IF ie.pdn_connection_ie_error THEN 4 ELSE 0)
               + (IF ie.bearer_context_ie_error THEN 2 ELSE 0) + (ie.cause_source % 2)>>
        \o (IF ie.offending_ie # <<>>
            THEN <<InformationElementTypeCode(ie.offending_ie[1][1]), 0, 0,
                   ie.offending_ie[1][2] % 16>>
            ELSE <<>>)

CauseParse(buf, build) ==
    IF ~Has(buf, 5) THEN IeResult("Panic")          \* buffer[0] .. buffer[4]
    ELSE IF At(buf, 4) \notin CauseCodes THEN IeResult("None")
    ELSE IF ~Has(buf, 6) THEN IeResult("Panic")     \* parseflags: buffer[0] of &buffer[5..]
    ELSE
        LET length == read_u16(buf, 1)
            flags == At(buf, 5)
            value(offending_ie) ==
                CauseNew(At(buf, 4), flags % 2, (flags \div 2) % 2 = 1, (flags \div 4) % 2 = 1,
                         offending_ie, At(buf, 3) % 16)
        IN
        IF length = 2 THEN IeReturn(value(<<>>), length, build)
        ELSE IF length = 6 THEN
            IF ~Has(buf, 7) THEN IeResult("Panic")
            ELSE IF InformationElementTypeTryFrom(At(buf, 6)) = "Err" THEN IeResult("None")
            ELSE IF ~Has(buf, 10) THEN IeResult("Panic")
            ELSE IeReturn(value(<<<<InformationElementTypeTryFrom(At(buf, 6)), At(buf, 9) % 16>>>>),
                          length, build)
        ELSE IeResult("None")

\* ---- RAT Type ----
RatTypeNew(rat_type, instance) == [ie |-> "RATType", instance |-> instance, rat_type |-> rat_type]

RatTypeGenerate(ie) == <<82>> \o be16(1) \o <<ie.instance % 16, ie.rat_type>>

RatTypeParse(buf, build) ==
    IF ~Has(buf, 5) THEN IeResult("Panic")          \* buffer[0] .. buffer[4]
    ELSE IF At(buf, 4) > 10 THEN IeResult("None")   \* RATType::try_from
    ELSE IeReturn(RatTypeNew(At(buf, 4), At(buf, 3) % 16), read_u16(buf, 1), build)

\* ---- APN: the name is a sequence of ASCII octets, 46 being the dot ----
ApnNew(apn, instance) == [ie |-> "APN", instance |-> 0, apn |-> apn]

RECURSIVE ApnLabelsGenerate(_)
\* for l in self.apn.split(AsciiChar::Dot): the length of the label, the label
ApnLabelsGenerate(apn) ==
    IF \A i \in 1..Len(apn) : apn[i] # 46 THEN <<Len(apn) % 256>> \o apn
    ELSE LET i == CHOOSE k \in 1..Len(apn) : apn[k] = 46 /\ \A j \in 1..(k - 1) : apn[j] # 46
         IN <<(i - 1) % 256>> \o SubSeq(apn, 1, i - 1)
                \o ApnLabelsGenerate(SubSeq(apn, i + 1, Len(apn)))

\* length() is 4 + apn.len() + 1
ApnGenerate(ie) ==
    <<71>> \o be16(4 + Len(ie.apn) + 1 - 4) \o <<ie.instance % 16>> \o ApnLabelsGenerate(ie.apn)

RECURSIVE ApnLabelLoop(_, _, _, _)
\* `while pos < (length + 4) as usize`: [kind, apn, pos]; to_ascii_char drops
\* the octets above 127
ApnLabelLoop(buf, pos, end, apn) ==
    IF pos >= end THEN [kind |-> "Some", apn |-> apn, pos |-> pos]
    ELSE IF ~Has(buf, pos + 1) THEN [kind |-> "Panic", apn |-> apn, pos |-> pos]
    ELSE IF ~Has(buf, pos + 1 + At(buf, pos)) THEN [kind |-> "Panic", apn |-> apn, pos |-> pos]
    ELSE ApnLabelLoop(buf, pos + 1 + At(buf, pos), end,
                      apn \o SelectSeq(SubSeq(buf, pos + 2, pos + 1 + At(buf, pos)),
                                       LAMBDA o : o < 128) \o <<46>>)

\* the position returned is where the label loop stopped
ApnParse(buf, build) ==
    IF ~Has(buf, 4) THEN IeResult("Panic")          \* buffer[0] .. buffer[3]
    ELSE IF AddU16(read_u16(buf, 1), 4, build) < 0 THEN IeResult("Panic")
    ELSE
        LET r == ApnLabelLoop(buf, 4, AddU16(read_u16(buf, 1), 4, build), <<>>) IN
        IF r.kind = "Panic" THEN IeResult("Panic")
        ELSE [kind |-> "Some",
              ie |-> [ie |-> "APN", instance |-> At(buf, 3) % 16,
                      apn |-> IF r.apn = <<>> THEN <<>> ELSE SubSeq(r.apn, 1, Len(r.apn) - 1)],
              pos |-> r.pos]

\* ---- MEI: fifteen IMEI digits and an optional software-version digit ----
MeiNew(imei, sv, instance) == [ie |-> "MEI", instance |-> instance, imei |-> imei, sv |-> sv]

\* generate_tbcd_imei packs two digits an octet, low nibble first; the high
\* nibble of the last octet is the SV, or 0xF without one
MeiGenerate(ie) ==
    <<75>> \o be16(8) \o <<ie.instance % 16>>
        \o [k \in 1..8 |->
               (ie.imei[2 * k - 1] % 16)
                 + 16 * (IF k < 8 THEN ie.imei[2 * k] % 16
                         ELSE IF ie.sv # <<>> THEN ie.sv[1] % 16
                         ELSE 15)]

MeiParse(buf, build) ==
    IF ~Has(buf, 12) THEN IeResult("Panic")         \* buffer[0] .. buffer[11]
    ELSE IeReturn(MeiNew([i \in 1..15 |->
                             IF i % 2 = 1 THEN At(buf, 4 + (i - 1) \div 2) % 16
                             ELSE (At(buf, 4 + (i - 1) \div 2) \div 16) % 16],
                         IF (At(buf, 11) \div 16) % 16 # 15
                         THEN <<(At(buf, 11) \div 16) % 16>> ELSE <<>>,
                         At(buf, 3) % 16),
                  read_u16(buf, 1), build)

\* ---- User Location Information ----
\* PLMN::parse
PlmnParse(buf) ==
    [mcc |-> <<At(buf, 0) % 16, (At(buf, 0) \div 16) % 16, At(buf, 1) % 16>>,
     mnc |-> <<At(buf, 2) % 16, (At(buf, 2) \div 16) % 16, (At(buf, 1) \div 16) % 16>>]

\* the location types in the order parse reads them, which is the order of
\* their flag bits from bit 0, and the octets each one reads
UliLocations ==
    <<[name |-> "cgi", size |-> 7], [name |-> "sai", size |-> 7], [name |-> "rai", size |-> 7],
      [name |-> "tai", size |-> 5], [name |-> "ecgi", size |-> 7], [name |-> "lai", size |-> 5],
      [name |-> "menbid", size |-> 6], [name |-> "emenbid", size |-> 6]>>

\* CGI::parse .. EMeNBID::parse on a buffer that holds the location's octets
UliLocationParse(name, buf) ==
    CASE name \in {"cgi", "sai", "rai"} ->
            [plmn |-> PlmnParse(buf), lac |-> read_u16(buf, 3), id |-> read_u16(buf, 5)]
      [] name \in {"tai", "lai"} ->
            [plmn |-> PlmnParse(buf), lac |-> read_u16(buf, 3), id |-> 0]
      [] name = "ecgi" ->                           \* read_u32 & 0xFFFFFFF
            [plmn |-> PlmnParse(buf), lac |-> 0,
             id |-> ((At(buf, 3) % 16) * 65536 + read_u16(buf, 4)) * 256 + At(buf, 6)]
      [] name = "menbid" ->                         \* read_uint(.., 3), unmasked
            [plmn |-> PlmnParse(buf), lac |-> 0, id |-> read_u24(buf, 3)]
      [] name = "emenbid" ->                        \* 18 bits with SMeNB, else 21
            [plmn |-> PlmnParse(buf), lac |-> 0,
             id |-> IF At(buf, 3) \div 128 = 1 THEN read_u24(buf, 3) % 262144
                    ELSE read_u24(buf, 3) % 2097152]

\* parse reads the flags octet, then each flagged location in turn, indexing
\* the buffer without a bound test; it returns the position it reached, not
\* 4 + the declared length
UliParse(buf, build) ==
    IF ~Has(buf, 5) THEN IeResult("Panic")          \* buffer[0] .. buffer[4]
    ELSE
        LET flag(k) == (At(buf, 4) \div (2 ^ (k - 1))) % 2
            RECURSIVE offset(_)
            offset(k) == IF k = 1 THEN 5
                         ELSE offset(k - 1) + flag(k - 1) * UliLocations[k - 1].size
        IN
        IF ~Has(buf, offset(9)) THEN IeResult("Panic")
        ELSE [kind |-> "Some",
              ie |-> [ie |-> "ULI", instance |-> At(buf, 3) % 16,
                      locations |->
                          [k \in 1..8 |->
                              IF flag(k) = 1
                              THEN <<UliLocationParse(UliLocations[k].name,
                                                      From(buf, offset(k)))>>
                              ELSE <<>>]],
              pos |-> offset(9)]

\* ---- Bearer Context: the eight optional F-TEID fields stay None, no setter
\* of them is modelled, and are left out of the record ----
BearerContextNew(eps_bearer_id, bearer_level_qos, instance) ==
    [ie |-> "BearerContext", instance |-> instance, eps_bearer_id |-> eps_bearer_id,
     bearer_level_qos |-> bearer_level_qos]

BearerContextLength(ie) ==
    4 + EbiLength(ie.eps_bearer_id) + BearerQosLength(ie.bearer_level_qos)

BearerContextGenerate(ie) ==
    <<93>> \o be16(BearerContextLength(ie) - 4) \o <<ie.instance % 16>>
        \o EbiGenerate(ie.eps_bearer_id)
        \o BearerQosGenerate(ie.bearer_level_qos)

RECURSIVE InformationElementParse(_, _)
RECURSIVE BearerContextLoop(_, _, _, _)
\* `while pos < buffer.len()`: [kind, ebi, qos] with the two Options the loop
\* fills; a step that does not advance never ends
BearerContextLoop(buf, pos, acc, build) ==
    IF pos >= Len(buf) THEN acc
    ELSE
        LET r == InformationElementParse(From(buf, pos), build)
            s == SkipParsing(From(buf, pos), build)
        IN
        IF r.kind \in {"Panic", "Hang", "Unmodelled"} THEN [acc EXCEPT !.kind = r.kind]
        ELSE IF r.kind = "Some" THEN
            IF r.pos = 0 THEN [acc EXCEPT !.kind = "Hang"]
            ELSE BearerContextLoop(buf, pos + r.pos,
                     IF r.ie.ie = "EBI" THEN [acc EXCEPT !.ebi = <<r.ie>>]
                     ELSE IF r.ie.ie = "BearerQoS" THEN [acc EXCEPT !.qos = <<r.ie>>]
                     ELSE acc,
                     build)
        ELSE IF s.kind = "Panic" THEN [acc EXCEPT !.kind = "Panic"]
        ELSE IF s.pos = 0 THEN [acc EXCEPT !.kind = "Hang"]
        ELSE BearerContextLoop(buf, pos + s.pos, acc, build)

BearerContextParse(buf, build) ==
    IF ~Has(buf, 4) THEN IeResult("Panic")          \* buffer[0] .. buffer[3]
    ELSE
        LET r == BearerContextLoop(buf, 4, [kind |-> "Some", ebi |-> <<>>, qos |-> <<>>], build) IN
        IF r.kind # "Some" THEN IeResult(r.kind)
        ELSE IF r.ebi = <<>> \/ r.qos = <<>> THEN IeResult("None")
        ELSE IeReturn(BearerContextNew(r.ebi[1], r.qos[1], At(buf, 3) % 16),
                      read_u16(buf, 1), build)

\* InformationElement::parse: the dispatch on the type octet
InformationElementParse(buf, build) ==
    IF ~Has(buf, 1) THEN IeResult("Panic")          \* buffer[0]
    ELSE
        LET ie_type == InformationElementTypeTryFrom(At(buf, 0)) IN
        CASE ie_type = "Err" -> IeResult("None")
          [] ie_type = "FTEID" -> FTeidParse(buf, build)
          [] ie_type = "BearerContext" -> BearerContextParse(buf, build)
          [] ie_type = "EBI" -> EbiParse(buf, build)
          [] ie_type = "BearerQoS" -> BearerQosParse(buf, build)
          [] ie_type = "Cause" -> CauseParse(buf, build)
          [] ie_type = "RATType" -> RatTypeParse(buf, build)
          [] ie_type = "APN" -> ApnParse(buf, build)
          [] ie_type = "MEI" -> MeiParse(buf, build)
          [] ie_type = "UserLocationInformation" -> UliParse(buf, build)
          [] OTHER -> IeResult("Unmodelled")

RECURSIVE IEsLength(_)
\* the sum of length() over an Option or a Vec of IEs
IEsLength(ies) ==
    IF ies = <<>> THEN 0
    ELSE (CASE Head(ies).ie = "FTEID" -> FTeidLength(Head(ies))
            [] Head(ies).ie = "BearerContext" -> BearerContextLength(Head(ies))
            [] Head(ies).ie = "EBI" -> EbiLength(Head(ies))
            [] Head(ies).ie = "BearerQoS" -> BearerQosLength(Head(ies))
            [] Head(ies).ie = "Cause" -> CauseLength(Head(ies)))
         + IEsLength(Tail(ies))

RECURSIVE IEsGenerate(_)
\* generate() of each IE of an Option or a Vec, in turn
IEsGenerate(ies) ==
    IF ies = <<>> THEN <<>>
    ELSE (CASE Head(ies).ie = "FTEID" -> FTeidGenerate(Head(ies))
            [] Head(ies).ie = "BearerContext" -> BearerContextGenerate(Head(ies))
            [] Head(ies).ie = "EBI" -> EbiGenerate(Head(ies))
            [] Head(ies).ie = "BearerQoS" -> BearerQosGenerate(Head(ies))
            [] Head(ies).ie = "Cause" -> CauseGenerate(Head(ies)))
         \o IEsGenerate(Tail(ies))

(***************************************************************************)
(* The GTPv2 Create Session Response.  The optional IEs other than the two *)
(* F-TEIDs stay None and are left out of the record.                       *)
(***************************************************************************)
\* Message::new pushes each bearer context with instance ToBeCreated = 0
CreateSessionResponseNew(cause, bearer_contexts_created) ==
    [type |-> "CreateSessionResponse",
     cause |-> cause,
     sender_f_teid_for_control_plane |-> <<>>,
     pgw_s5_s8_for_control_plane |-> <<>>,
     bearer_contexts_created |->
         [i \in 1..Len(bearer_contexts_created) |->
             [bearer_contexts_created[i] EXCEPT !.instance = 0]],
     bearer_contexts_marked_for_removal |-> <<>>]

\* length(): the PGW F-TEID is added twice, the sender F-TEID is not added
CreateSessionResponseLength(m) ==
    CauseLength(m.cause)
        + IEsLength(m.pgw_s5_s8_for_control_plane)
        + IEsLength(m.pgw_s5_s8_for_control_plane)
        + IEsLength(m.bearer_contexts_created)
        + IEsLength(m.bearer_contexts_marked_for_removal)

CreateSessionResponseGenerate(m) ==
    CauseGenerate(m.cause)
        \o IEsGenerate(m.sender_f_teid_for_control_plane)
        \o IEsGenerate(m.pgw_s5_s8_for_control_plane)
        \o IEsGenerate(m.bearer_contexts_created)
        \o IEsGenerate(m.bearer_contexts_marked_for_removal)

\* the `match ie` of Message::parse on the slots it fills
CreateSessionResponsePlace(acc, ie) ==
    CASE ie.ie = "BearerContext" /\ ie.instance = 0 ->
            [acc EXCEPT !.bearer_contexts_created = Append(@, ie)]
      [] ie.ie = "BearerContext" /\ ie.instance = 1 ->
            [acc EXCEPT !.bearer_contexts_marked_for_removal = Append(@, ie)]
      [] ie.ie = "FTEID" /\ ie.instance = 0 ->
            [acc EXCEPT !.sender_f_teid_for_control_plane = <<ie>>]
      [] ie.ie = "FTEID" /\ ie.instance = 1 ->
            [acc EXCEPT !.pgw_s5_s8_for_control_plane = <<ie>>]
      [] ie.ie = "Cause" -> [acc EXCEPT !.cause = <<ie>>]
      [] OTHER -> acc

RECURSIVE CreateSessionResponseLoop(_, _, _, _)
\* `while pos < buffer.len()`: [kind, acc, pos]
CreateSessionResponseLoop(buf, pos, acc, build) ==
    IF pos >= Len(buf) THEN [kind |-> "Some", acc |-> acc, pos |-> pos]
    ELSE
        LET r == InformationElementParse(From(buf, pos), build)
            s == SkipParsing(From(buf, pos), build)
        IN
        IF r.kind \in {"Panic", "Hang", "Unmodelled"} THEN [kind |-> r.kind, acc |-> acc, pos |-> pos]
        ELSE IF r.kind = "Some" THEN
            IF r.pos = 0 THEN [kind |-> "Hang", acc |-> acc, pos |-> pos]
            ELSE CreateSessionResponseLoop(buf, pos + r.pos,
                                           CreateSessionResponsePlace(acc, r.ie), build)
        ELSE IF s.kind = "Panic" THEN [kind |-> "Panic", acc |-> acc, pos |-> pos]
        ELSE IF s.pos = 0 THEN [kind |-> "Hang", acc |-> acc, pos |-> pos]
        ELSE CreateSessionResponseLoop(buf, pos + s.pos, acc, build)

CreateSessionResponseParse(buf, build) ==
    LET r == CreateSessionResponseLoop(buf, 0,
                 [cause |-> <<>>, sender_f_teid_for_control_plane |-> <<>>,
                  pgw_s5_s8_for_control_plane |-> <<>>,
                  bearer_contexts_created |-> <<>>,
                  bearer_contexts_marked_for_removal |-> <<>>],
                 build)
    IN
    IF r.kind # "Some" THEN [None EXCEPT !.kind = r.kind]
    ELSE IF r.acc.cause # <<>> /\ Len(r.acc.bearer_contexts_created) > 1
    THEN Some(NoHeader,
              [type |-> "CreateSessionResponse",
               cause |-> r.acc.cause[1],
               sender_f_teid_for_control_plane |-> r.acc.sender_f_teid_for_control_plane,
               pgw_s5_s8_for_control_plane |-> r.acc.pgw_s5_s8_for_control_plane,
               bearer_contexts_created |-> r.acc.bearer_contexts_created,
               bearer_contexts_marked_for_removal |-> r.acc.bearer_contexts_marked_for_removal],
              0, r.pos)
    ELSE None

(***************************************************************************)
(* The GTPv2 Create Session Request.  Of its optional IEs the record keeps *)
(* the MEI, the ULI and the PGW F-TEID; the others stay None.              *)
(***************************************************************************)
\* Message::new pushes the bearer context with instance ToBeCreated = 0
CreateSessionRequestNew(rat_type, sender_f_teid, bearer_context, apn) ==
    [type |-> "CreateSessionRequest",
     mei |-> <<>>,
     uli |-> <<>>,
     rat_type |-> rat_type,
     sender_f_teid_for_control_plane |-> sender_f_teid,
     pgw_s5_s8_for_control_plane |-> <<>>,
     apn |-> apn,
     bearer_contexts_to_be_created |-> <<[bearer_context EXCEPT !.instance = 0]>>,
     bearer_contexts_to_be_removed |-> <<>>]

\* no ULI generator is modelled: uli stays None in every message generated
CreateSessionRequestGenerate(m) ==
    (IF m.mei # <<>> THEN MeiGenerate(m.mei[1]) ELSE <<>>)
        \o RatTypeGenerate(m.rat_type)
        \o FTeidGenerate(m.sender_f_teid_for_control_plane)
        \o IEsGenerate(m.pgw_s5_s8_for_control_plane)
        \o ApnGenerate(m.apn)
        \o IEsGenerate(m.bearer_contexts_to_be_created)
        \o IEsGenerate(m.bearer_contexts_to_be_removed)

\* the `match ie` of Message::parse on the slots it fills
CreateSessionRequestPlace(acc, ie) ==
    CASE ie.ie = "MEI" -> [acc EXCEPT !.mei = <<ie>>]
      [] ie.ie = "ULI" -> [acc EXCEPT !.uli = <<ie>>]
      [] ie.ie = "RATType" -> [acc EXCEPT !.rat_type = <<ie>>]
      [] ie.ie = "BearerContext" /\ ie.instance = 0 ->
            [acc EXCEPT !.bearer_contexts_to_be_created = Append(@, ie)]
      [] ie.ie = "BearerContext" /\ ie.instance = 1 ->
            [acc EXCEPT !.bearer_contexts_to_be_removed = Append(@, ie)]
      [] ie.ie = "APN" -> [acc EXCEPT !.apn = <<ie>>]
      [] ie.ie = "FTEID" /\ ie.instance = 0 ->
            [acc EXCEPT !.sender_f_teid_for_control_plane = <<ie>>]
      [] ie.ie = "FTEID" /\ ie.instance = 1 ->
            [acc EXCEPT !.pgw_s5_s8_for_control_plane = <<ie>>]
      [] OTHER -> acc

RECURSIVE CreateSessionRequestLoop(_, _, _, _)
\* `while pos < buffer.len()`: [kind, acc, pos]
CreateSessionRequestLoop(buf, pos, acc, build) ==
    IF pos >= Len(buf) THEN [kind |-> "Some", acc |-> acc, pos |-> pos]
    ELSE
        LET r == InformationElementParse(From(buf, pos), build)
            s == SkipParsing(From(buf, pos), build)
        IN
        IF r.kind \in {"Panic", "Hang", "Unmodelled"} THEN [kind |-> r.kind, acc |-> acc, pos |-> pos]
        ELSE IF r.kind = "Some" THEN
            IF r.pos = 0 THEN [kind |-> "Hang", acc |-> acc, pos |-> pos]
            ELSE CreateSessionRequestLoop(buf, pos + r.pos,
                                          CreateSessionRequestPlace(acc, r.ie), build)
        ELSE IF s.kind = "Panic" THEN [kind |-> "Panic", acc |-> acc, pos |-> pos]
        ELSE IF s.pos = 0 THEN [kind |-> "Hang", acc |-> acc, pos |-> pos]
        ELSE CreateSessionRequestLoop(buf, pos + s.pos, acc, build)

CreateSessionRequestParse(buf, build) ==
    LET r == CreateSessionRequestLoop(buf, 0,
                 [mei |-> <<>>, uli |-> <<>>, rat_type |-> <<>>,
                  sender_f_teid_for_control_plane |-> <<>>,
                  pgw_s5_s8_for_control_plane |-> <<>>, apn |-> <<>>,
                  bearer_contexts_to_be_created |-> <<>>,
                  bearer_contexts_to_be_removed |-> <<>>],
                 build)
    IN
    IF r.kind # "Some" THEN [None EXCEPT !.kind = r.kind]
    ELSE IF /\ r.acc.rat_type # <<>>
            /\ Len(r.acc.bearer_contexts_to_be_created) > 1
            /\ r.acc.sender_f_teid_for_control_plane # <<>>
            /\ r.acc.apn # <<>>
    THEN Some(NoHeader,
              [type |-> "CreateSessionRequest",
               mei |-> r.acc.mei,
               uli |-> r.acc.uli,
               rat_type |-> r.acc.rat_type[1],
               sender_f_teid_for_control_plane |-> r.acc.sender_f_teid_for_control_plane[1],
               pgw_s5_s8_for_control_plane |-> r.acc.pgw_s5_s8_for_control_plane,
               apn |-> r.acc.apn[1],
               bearer_contexts_to_be_created |-> r.acc.bearer_contexts_to_be_created,
               bearer_contexts_to_be_removed |-> r.acc.bearer_contexts_to_be_removed],
              0, r.pos)
    ELSE None

\* Message::parse: the decoder of the header's message type; the decoders of
\* the two Echo messages, which look for a Recovery IE, are not modelled
V2MessageParse(message_type, buf, build) ==
    CASE message_type = "CreateSessionRequest" -> CreateSessionRequestParse(buf, build)
      [] message_type = "CreateSessionResponse" -> CreateSessionResponseParse(buf, build)
      [] OTHER -> [None EXCEPT !.kind = "Unmodelled"]

\* the packet Packet::parse returns for a parsed header and message outcome
V2PacketOf(h, m) ==
    IF m.kind # "Some" THEN [None EXCEPT !.kind = m.kind]
    ELSE Some(h.header, m.message, h.length, h.pos + m.pos)

\* Packet::parse: h.set_payload_length(m.length()) leaves the length parsed
\* from the header behind; the position is h_pos + m_pos
V2PacketParse(buf, build) ==
    LET h == V2HeaderParse(buf) IN
    IF h.kind # "Some" THEN h
    ELSE V2PacketOf(h, V2MessageParse(h.header.message_type, From(buf, h.pos), build))

V2MessageTypeCode(message_type) ==
    CASE message_type = "EchoRequest" -> 1
      [] message_type = "EchoResponse" -> 2
      [] message_type = "CreateSessionRequest" -> 32
      [] message_type = "CreateSessionResponse" -> 33

\* Header::length in u16
V2HeaderLength(h) == (h.payload_length + 3 + (IF h.t = 1 THEN 4 ELSE 0) + 1) % 65536

V2generate_flags(h) == (h.version % 8) * 32 + (h.t % 2) * 8 + (h.mp % 2) * 4

\* the caller's buffer is zeroed, as send_to passes it: the spare octet is 0
V2HeaderGenerate(h) ==
    <<V2generate_flags(h), V2MessageTypeCode(h.message_type)>>
        \o be16(V2HeaderLength(h))
        \o (IF h.t = 1 THEN be32(h.teid) ELSE <<>>)
        \o <<(h.sequence_number \div 65536) % 256, (h.sequence_number \div 256) % 256,
             h.sequence_number % 256>>
        \o <<IF h.mp = 1 THEN (h.message_priority * 16) % 256 ELSE 0>>

\* Packet::generate: self.header.set_payload_length(self.message.length())
V2StampPayloadLength(h, m) == set_payload_length(h, CreateSessionResponseLength(m))

V2PacketGenerate(h, m) ==
    V2HeaderGenerate(V2StampPayloadLength(h, m)) \o CreateSessionResponseGenerate(m)

(***************************************************************************)
(* A GTPv2 packet built by Packet::new, changed through the setters,       *)
(* generated, and its message parsed back.                                 *)
(***************************************************************************)
MaxBearerContexts == 2

SampleIpv4 == <<10, 0, 0, 1>>

SampleIpv6 == <<32, 1, 13, 184, 0, 0, 0, 0, 0, 0, 0, 0, 0, 0, 0, 1>>

SampleBearerContext ==
    BearerContextNew(EbiNew(5, 0),
                     BearerQosNew(TRUE, 9, FALSE, 7, U40(10000000), U40(10000000),
                                  U40(0), U40(0), 0),
                     0)

V2Messages ==
    {CreateSessionResponseNew(CauseNew(16, 0, FALSE, FALSE, <<>>, 0), bcs) :
         bcs \in {<<>>, <<SampleBearerContext>>}}

V2Alive == msg.type = "CreateSessionResponse" /\ hop.ret # "Panic"

V2SetPayloadLength ==
    /\ V2Alive
    /\ \E payload_length \in PayloadLengths : hdr' = set_payload_length(hdr, payload_length)
    /\ Mutated("set_payload_length")
    /\ UNCHANGED msg

V2EnableTeid ==
    /\ V2Alive
    /\ hdr.t = 0
    /\ hdr' = [hdr EXCEPT !.t = 1]
    /\ Mutated("enable_teid")
    /\ UNCHANGED msg

SetSenderFTeidForControlPlane ==
    /\ V2Alive
    /\ msg.sender_f_teid_for_control_plane = <<>>
    /\ msg' = [msg EXCEPT !.sender_f_teid_for_control_plane =
                               <<FTeidNew(11, U32(4660), <<SampleIpv4>>, <<>>, 0)>>]
    /\ Mutated("set_sender_f_teid_for_control_plane")
    /\ UNCHANGED hdr

SetPgwS5S8ForControlPlane ==
    /\ V2Alive
    /\ msg.pgw_s5_s8_for_control_plane = <<>>
    /\ msg' = [msg EXCEPT !.pgw_s5_s8_for_control_plane =
                               <<FTeidNew(7, U32(4660), <<SampleIpv4>>, <<SampleIpv6>>, 1)>>]
    /\ Mutated("set_pgw_s5_s8_for_control_plane")
    /\ UNCHANGED hdr

\* set_instance(ToBeCreated), then push
PushBearerContextCreated ==
    /\ V2Alive
    /\ Len(msg.bearer_contexts_created) < MaxBearerContexts
    /\ msg' = [msg EXCEPT !.bearer_contexts_created =
                              Append(@, [SampleBearerContext EXCEPT !.instance = 0])]
    /\ Mutated("push_bearer_context_created")
    /\ UNCHANGED hdr

\* set_instance(ToBeRemoved), then push
PushBearerContextMarkedForRemoval ==
    /\ V2Alive
    /\ msg.bearer_contexts_marked_for_removal = <<>>
    /\ msg' = [msg EXCEPT !.bearer_contexts_marked_for_removal =
                              Append(@, [SampleBearerContext EXCEPT !.instance = 1])]
    /\ Mutated("push_bearer_context_marked_for_removal")
    /\ UNCHANGED hdr

\* Message::generate on its own, for a message whose header is untouched
V2GenerateMessage ==
    /\ V2Alive
    /\ hdr = V2HeaderNew(msg.type)
    /\ pbuf' = CreateSessionResponseGenerate(msg)
    /\ hop' = [op |-> "v2::Message::generate", ret |-> "Some"]
    /\ pres' = Idle
    /\ UNCHANGED <<hdr, msg>>

V2GeneratePacket ==
    /\ V2Alive
    /\ hdr' = V2StampPayloadLength(hdr, msg)
    /\ pbuf' = V2PacketGenerate(hdr, msg)
    /\ hop' = [op |-> "v2::Packet::generate", ret |-> "Some"]
    /\ pres' = Idle
    /\ UNCHANGED msg

\* the octets a datagram loses when it arrives cut short
Cuts == {1, 3}

TruncateBuffer ==
    /\ hop = [op |-> "v2::Message::generate", ret |-> "Some"]
    /\ pres = Idle
    /\ \E cut \in Cuts : cut < Len(pbuf) /\ pbuf' = SubSeq(pbuf, 1, Len(pbuf) - cut)
    /\ hop' = [op |-> "truncated", ret |-> "Some"]
    /\ UNCHANGED <<pres, hdr, msg>>

V2ParseMessage ==
    /\ hop.op \in {"v2::Message::generate", "truncated"}
    /\ pres = Idle
    /\ \E build \in BuildKinds :
         pres' = [decoder |-> "v2::Message::parse",
                  result |-> CreateSessionResponseParse(pbuf, build)]
    /\ UNCHANGED <<pbuf, hvars>>

V2ParseGeneratedPacket ==
    /\ hop.op = "v2::Packet::generate"
    /\ pres = Idle
    /\ \E build \in BuildKinds :
         pres' = [decoder |-> "v2::Packet::parse", result |-> V2PacketParse(pbuf, build)]
    /\ UNCHANGED <<pbuf, hvars>>

(***************************************************************************)
(* One information element generated and parsed back, and skip_parsing     *)
(* applied to an IE header.                                                *)
(***************************************************************************)
BearerQosValues ==
    {BearerQosNew(pci, pl, pvi, qci, U40(ul), U40(10000000), U40(0), U40(gdl), instance) :
        pci \in BOOLEAN, pl \in {0, 15}, pvi \in BOOLEAN, qci \in {7, 255},
        ul \in {0, 10000000}, gdl \in {1}, instance \in {0, 15}}

FTeidValues ==
    {FTeidNew(t, U32(4660), a[1], a[2], instance) :
        t \in InterfaceTypes,
        a \in {<<<<SampleIpv4>>, <<>>>>, <<<<>>, <<SampleIpv6>>>>,
               <<<<SampleIpv4>>, <<SampleIpv6>>>>},
        instance \in {0, 15}}

SkipLengths == {0, 1, 22, 65531, 65532, 65535}

GenerateIE ==
    /\ hop.op = "new"
    /\ \E ie \in BearerQosValues \cup FTeidValues :
         /\ msg' = ie
         /\ pbuf' = IEsGenerate(<<ie>>)
    /\ hop' = [op |-> "InformationElement::generate", ret |-> "Some"]
    /\ UNCHANGED <<pres, hdr>>

ParseIE ==
    /\ hop.op = "InformationElement::generate"
    /\ pres = Idle
    /\ \E build \in BuildKinds :
         pres' = [decoder |-> "v2::InformationElement::parse",
                  result |-> InformationElementParse(pbuf, build)]
    /\ UNCHANGED <<pbuf, hvars>>

\* an IE of a type outside the catalog arrives and is skipped
SkipIE ==
    /\ hop.op = "new"
    /\ \E length \in SkipLengths, build \in BuildKinds :
         /\ pbuf' = <<254>> \o be16(length) \o <<0>>
         /\ pres' = [decoder |-> "v2::InformationElement::skip_parsing",
                     result |-> SkipParsing(pbuf', build)]
         /\ hop' = [op |-> "received", ret |-> build]
    /\ UNCHANGED <<hdr, msg>>

\* Bearer-QoS constructed from arguments inside and outside the ranges
ConstructBearerQos ==
    /\ hop.op = "new"
    /\ \E pl \in {0, 15, 16}, instance \in {0, 15, 16},
          ul \in {U40(0), U40(MaxBitrate), U40(MaxBitrate + 1), <<1, 0, 0, 0, 0>>},
          gdl \in {U40(1), U40(MaxBitrate + 1), <<255, 255, 255, 255, 255>>} :
         LET r == BearerQosTryNew(TRUE, pl, FALSE, 9, ul, U40(5), U40(0), gdl, instance) IN
         /\ msg' = r.ie
         /\ hop' = [op |-> "bearer_qos::InformationElement::new", ret |-> r.kind,
                    pl |-> pl, instance |-> instance, bitrates |-> {ul, gdl}]
    /\ UNCHANGED <<pbuf, pres, hdr>>

\* a Bearer Context whose declared length covers its EBI only
BearerContextEbiOnly == <<93>> \o be16(5) \o <<0>> \o EbiGenerate(EbiNew(5, 0))

\* octets a peer may send where an IE is expected: the IE and what follows
\* it in the enclosing message
ReceivedIEs ==
    { BearerContextGenerate(SampleBearerContext),
      BearerContextEbiOnly \o BearerQosGenerate(SampleBearerContext.bearer_level_qos),
      BearerContextGenerate(SampleBearerContext) \o EbiGenerate(EbiNew(9, 0)),
      <<93>> \o be16(4) \o <<0>> \o <<254, 255, 252, 0>>,
      <<93>> \o be16(9) \o <<0>> \o EbiGenerate(EbiNew(5, 0)) \o <<254, 0, 0, 0>>,
      <<80>> \o be16(22) \o <<0, 0, 9>> \o U40(MaxBitrate) \o U40(MaxBitrate + 1)
             \o <<255, 255, 255, 255, 255>> \o U40(0),
      <<80>> \o be16(22) \o <<0, 60, 9>> \o U40(MaxBitrate) \o U40(8) \o U40(0) \o U40(0),
      <<86>> \o be16(7) \o <<0, 64>> \o <<2, 248, 16>> \o <<255, 255, 255>>,
      <<86>> \o be16(7) \o <<0, 64>> \o <<2, 248, 16>> \o <<15, 255, 255>>,
      <<86>> \o be16(8) \o <<0, 16>> \o <<2, 248, 16>> \o <<255, 255, 255, 255>>,
      <<86>> \o be16(7) \o <<0, 128>> \o <<2, 248, 16>> \o <<255, 255, 255>> }

\* InformationElement::parse(&buffer[pos..]) on received octets
ReceiveIE ==
    /\ hop.op = "new"
    /\ \E buf \in ReceivedIEs, build \in BuildKinds :
         /\ pbuf' = buf
         /\ pres' = [decoder |-> "v2::InformationElement::parse",
                     result |-> InformationElementParse(buf, build)]
         /\ hop' = [op |-> "received", ret |-> build]
    /\ UNCHANGED <<hdr, msg>>

\* the IEs of a Create Session Request a peer may send: a generated request
\* followed by an IE of a type outside the catalog
ReceivedRequests ==
    { CreateSessionRequestGenerate(
          [CreateSessionRequestNew(RatTypeNew(6, 0),
                                   FTeidNew(11, U32(4660), <<SampleIpv4>>, <<>>, 0),
                                   SampleBearerContext, ApnNew(<<97, 46, 98>>, 0))
             EXCEPT !.bearer_contexts_to_be_created =
                        [i \in 1..2 |-> [SampleBearerContext EXCEPT !.instance = 0]]])
        \o <<254>> \o be16(length) \o Zeros(k)
      : length \in {0, 2, 65532}, k \in {2} }

\* create_session_request::Message::parse on received octets
ReceiveRequest ==
    /\ hop.op = "new"
    /\ \E buf \in ReceivedRequests, build \in BuildKinds :
         /\ pbuf' = buf
         /\ pres' = [decoder |-> "create_session_request::Message::parse",
                     result |-> CreateSessionRequestParse(buf, build)]
         /\ hop' = [op |-> "received", ret |-> build]
    /\ UNCHANGED <<hdr, msg>>

(***************************************************************************)
(* The listeners.                                                          *)
(***************************************************************************)
MTU == 64               \* size of the scratch buffers (scaled down)
MaxDatagrams == 2       \* datagrams the GTP listener receives in a run
MaxFrames == 2          \* frames the IP listener captures in a run

EthernetMinLen == 14
Ipv4MinLen == 20
Ipv6MinLen == 40
GtpPort == 2152
MaxTPdu == 65535

Counters ==
    {"rx_gtp", "rx_ignored_gtp", "rx_gtp_echo_request", "tx_gtp_echo_request",
     "tx_gtp_echo_response", "rx_gtp_echo_response", "tx_gtp", "rx_ip", "tx_ip"}

(***************************************************************************)
(* A counter is a usize.  It is kept as its eight big-endian octets (it    *)
(* exceeds the checker's integers), and `self.x = self.x + n` panics on    *)
(* overflow in a "checked" build and wraps in a "wrapping" one.            *)
(***************************************************************************)
UsizeMax == [i \in 1..8 |-> 255]

\* the usize of a number below 2^24
UsizeOf(n) == <<0, 0, 0, 0, 0, (n \div 65536) % 256, (n \div 256) % 256, n % 256>>

RECURSIVE UsizeCarry(_, _, _)
\* the carry out of octet i of v + n; the carry out of octet 1 is the overflow
UsizeCarry(v, n, i) ==
    IF i > 8 THEN 0 ELSE (v[i] + n[i] + UsizeCarry(v, n, i + 1)) \div 256

\* v + n in usize: [kind, value]
UsizeAdd(v, n, build) ==
    IF UsizeCarry(v, n, 1) = 1 /\ build = "checked" THEN [kind |-> "Panic", value |-> v]
    ELSE [kind |-> "Some",
          value |-> [i \in 1..8 |-> (v[i] + n[i] + UsizeCarry(v, n, i + 1)) % 256]]

StatisticsNew == [c \in Counters |-> UsizeOf(0)]

V4(a) == [fam |-> "v4", a |-> a]
V6(a) == [fam |-> "v6", a |-> a]
NoAddr == [fam |-> "none", a |-> 0]

\* the (src, dest) filters the caller provides
Filters ==
    { <<V4(1), NoAddr>>, <<NoAddr, V4(2)>>, <<V6(1), V4(2)>>, <<NoAddr, V6(2)>>,
      <<NoAddr, NoAddr>> }

\* (i_teid, o_teid, peer, src filter, dest filter) as the caller provides
\* them, and the kind of build the program runs as
Config(f, build) ==
    [i_teid |-> U32(17), o_teid |-> U32(34), peer |-> V4(9), src |-> f[1], dest |-> f[2],
     build |-> build]

Configs == {Config(f, build) : f \in Filters, build \in BuildKinds}

InnerIpv4 == <<69, 0, 0, 20, 0, 0, 0, 0, 64, 1, 0, 0, 10, 0, 0, 1, 10, 0, 0, 2>>

\* what recv_from can deliver: (octets, source address)
Datagrams ==
    { [bytes |-> <<>>, src |-> "A"],
      [bytes |-> <<48, 1, 0>>, src |-> "A"],
      [bytes |-> <<48, 1, 0, 0, 0, 0, 0, 17>>, src |-> "A"],
      [bytes |-> <<48, 1, 0, 0, 0, 0, 0, 17>>, src |-> "B"],
      [bytes |-> <<50, 1, 0, 2, 0, 0, 0, 17, 0, 7>>, src |-> "A"],
      [bytes |-> <<48, 1, 0, 0, 0, 0, 0, 34>>, src |-> "A"],
      [bytes |-> <<48, 2, 0, 0, 0, 0, 0, 17>>, src |-> "A"],
      [bytes |-> <<48, 16, 0, 0, 0, 0, 0, 17>>, src |-> "A"],
      [bytes |-> <<48, 3, 0, 0, 0, 0, 0, 17>>, src |-> "A"],
      [bytes |-> <<32, 1, 0, 0, 0, 0, 0, 17>>, src |-> "A"],
      [bytes |-> <<64, 1, 0, 4, 0, 0, 1, 0>>, src |-> "A"],
      [bytes |-> <<48, 255, 0, 20, 0, 0, 0, 17>> \o InnerIpv4, src |-> "A"],
      [bytes |-> <<48, 255, 0, 4, 0, 0, 0, 17, 69, 0, 0, 4>>, src |-> "A"],
      [bytes |-> <<48, 255, 0, 20, 0, 0, 0, 34>> \o InnerIpv4, src |-> "A"] }

\* what the datalink channel can deliver: a frame of len octets whose
\* payload (len - 14 octets) carries the given addresses
Frame(len, ethertype, src, dst) ==
    [len |-> len, ethertype |-> ethertype, src |-> src, dst |-> dst]

Frames ==
    { Frame(10, "Ipv4", 1, 2),
      Frame(EthernetMinLen + Ipv4MinLen, "Arp", 1, 2),
      Frame(EthernetMinLen + Ipv4MinLen - 1, "Ipv4", 1, 2),
      Frame(EthernetMinLen + Ipv4MinLen, "Ipv4", 1, 2),
      Frame(EthernetMinLen + Ipv4MinLen, "Ipv4", 2, 1),
      Frame(EthernetMinLen + MTU - 8, "Ipv4", 1, 2),
      Frame(EthernetMinLen + MTU - 7, "Ipv4", 1, 2),
      Frame(EthernetMinLen + Ipv6MinLen - 1, "Ipv6", 1, 2),
      Frame(EthernetMinLen + Ipv6MinLen, "Ipv6", 1, 2),
      Frame(EthernetMinLen + Ipv6MinLen, "Ipv6", 2, 1) }

NoFrame == Frame(0, "-", 0, 0)

\* the frame's payload: the IP packet octets, identified by the frame
Payload(f) == [len |-> f.len - EthernetMinLen, of |-> f]

(***************************************************************************)
(* Statistics and its mutex.  An increment is                              *)
(*   let mut s = stats.lock().unwrap(); s.X_add(1); drop(s);               *)
(* modelled as lock / read / write / unlock.                               *)
(***************************************************************************)
\* variant: lock() returns without waiting for the holder
CanAcquire_no_wait(l) == TRUE

CanAcquire(l) == l = "free"

NoDelta == [c \in Counters |-> 0]

\* the points of GtpListener::listen at which a counter is incremented
GtpIncrements ==
    [inc_rx_gtp |-> "rx_gtp",
     inc_rx_gtp_echo_request |-> "rx_gtp_echo_request",
     inc_tx_gtp_echo_response |-> "tx_gtp_echo_response",
     inc_tx_ip |-> "tx_ip",
     inc_rx_ignored_gtp |-> "rx_ignored_gtp"]

GtpIncPcs == DOMAIN GtpIncrements

\* variant: the EchoRequest arm counts the request and answers nothing
GtpAfterIncrement_no_answer(pc, p) ==
    CASE pc = "inc_rx_gtp" ->
           (CASE p.message.type = "EchoRequest" -> "inc_rx_gtp_echo_request"
              [] p.message.type = "GPDU" -> "gpdu"
              [] OTHER -> "clear")
      [] OTHER -> "clear"

\* where listen goes after the increment at pc, for the parsed packet p
GtpAfterIncrement(pc, p) ==
    CASE pc = "inc_rx_gtp" ->
           (CASE p.message.type = "EchoRequest" -> "inc_rx_gtp_echo_request"
              [] p.message.type = "GPDU" -> "gpdu"
              [] OTHER -> "clear")
      [] pc = "inc_rx_gtp_echo_request" -> "echo_send"
      [] OTHER -> "clear"

(***************************************************************************)
(* GtpListener::listen.                                                    *)
(***************************************************************************)
GtpNew ==
    [pc |-> "idle", phase |-> "-", tmp |-> UsizeOf(0), nrecv |-> 0,
     number_of_bytes |-> 0, src_addr |-> "-", p |-> None,
     delta |-> NoDelta, tx |-> <<>>]

GtpListen ==
    /\ gtp.pc = "idle"
    /\ gtp' = [gtp EXCEPT !.pc = "recv"]
    /\ UNCHANGED <<cfg, stats, applied, lock, buffer, ip>>

\* socket.recv_from(&mut buffer) returns Ok((number_of_bytes, src_addr))
GtpRecvOk ==
    /\ gtp.pc = "recv"
    /\ gtp.nrecv < MaxDatagrams
    /\ \E d \in Datagrams :
         /\ buffer' = [i \in 1..MTU |->
                         IF i <= Len(d.bytes) THEN d.bytes[i] ELSE buffer[i]]
         /\ gtp' = [gtp EXCEPT !.pc = "parse", !.nrecv = @ + 1,
                               !.number_of_bytes = Len(d.bytes), !.src_addr = d.src,
                               !.p = None, !.delta = NoDelta, !.tx = <<>>]
    /\ UNCHANGED <<cfg, stats, applied, lock, ip>>

\* socket.recv_from returns Err: the while-let loop ends
GtpRecvErr ==
    /\ gtp.pc = "recv"
    /\ gtp' = [gtp EXCEPT !.pc = "terminated"]
    /\ UNCHANGED <<cfg, stats, applied, lock, buffer, ip>>

\* variant: an EchoRequest is accepted whatever its TEID
TeidMatches_any_echo(p, c) ==
    p.header.teid = c.i_teid \/ p.message.type = "EchoRequest"

\* p.header.teid() == self.i_teid
TeidMatches(p, c) == p.header.teid = c.i_teid

\* GtpPacket::parse(&buffer[..number_of_bytes]) and the TEID test
GtpParse ==
    /\ gtp.pc = "parse"
    /\ LET p == PacketParse(SubSeq(buffer, 1, gtp.number_of_bytes)) IN
       gtp' = [gtp EXCEPT
                 !.p = p,
                 !.pc = CASE p.kind = "Panic" -> "panicked"
                          [] p.kind = "Hang" -> "hung"
                          [] p.kind = "None" -> "clear"
                          [] OTHER -> IF TeidMatches(p, cfg)
                                      THEN "inc_rx_gtp"
                                      ELSE "inc_rx_ignored_gtp",
                 !.phase = IF p.kind = "Some" THEN "lock" ELSE "-"]
    /\ UNCHANGED <<cfg, stats, applied, lock, buffer, ip>>

\* self.stats.lock().unwrap(): waits for the holder; panics on a mutex that
\* a panicking holder left poisoned
GtpLock ==
    /\ gtp.pc \in GtpIncPcs /\ gtp.phase = "lock"
    /\ \/ /\ CanAcquire(lock)
          /\ lock' = "gtp"
          /\ gtp' = [gtp EXCEPT !.phase = "read"]
       \/ /\ lock = "poisoned"
          /\ lock' = lock
          /\ gtp' = [gtp EXCEPT !.pc = "panicked", !.phase = "-"]
    /\ UNCHANGED <<cfg, stats, applied, buffer, ip>>

GtpRead ==
    /\ gtp.pc \in GtpIncPcs /\ gtp.phase = "read"
    /\ gtp' = [gtp EXCEPT !.tmp = stats[GtpIncrements[gtp.pc]], !.phase = "write"]
    /\ UNCHANGED <<cfg, stats, applied, lock, buffer, ip>>

\* (*s).X_add(1): a panic of the addition unwinds through the guard, which
\* poisons the mutex and releases it
GtpWrite ==
    /\ gtp.pc \in GtpIncPcs /\ gtp.phase = "write"
    /\ LET c == GtpIncrements[gtp.pc]
           r == UsizeAdd(gtp.tmp, UsizeOf(1), cfg.build)
       IN IF r.kind = "Panic"
          THEN /\ lock' = "poisoned"
               /\ gtp' = [gtp EXCEPT !.pc = "panicked", !.phase = "-"]
               /\ UNCHANGED <<stats, applied>>
          ELSE /\ stats' = [stats EXCEPT ![c] = r.value]
               /\ applied' = [applied EXCEPT ![c] = @ + 1]
               /\ gtp' = [gtp EXCEPT !.phase = "unlock", !.delta[c] = @ + 1]
               /\ UNCHANGED lock
    /\ UNCHANGED <<cfg, buffer, ip>>

\* variant: the guard is not dropped after the increment
GtpUnlock_keeps_lock ==
    /\ gtp.pc \in GtpIncPcs /\ gtp.phase = "unlock"
    /\ lock' = lock
    /\ LET next == GtpAfterIncrement(gtp.pc, gtp.p) IN
       gtp' = [gtp EXCEPT !.pc = next,
                          !.phase = IF next \in GtpIncPcs THEN "lock" ELSE "-"]
    /\ UNCHANGED <<cfg, stats, applied, buffer, ip>>

\* drop(s)
GtpUnlock ==
    /\ gtp.pc \in GtpIncPcs /\ gtp.phase = "unlock"
    /\ lock' = "free"
    /\ LET next == GtpAfterIncrement(gtp.pc, gtp.p) IN
       gtp' = [gtp EXCEPT !.pc = next,
                          !.phase = IF next \in GtpIncPcs THEN "lock" ELSE "-"]
    /\ UNCHANGED <<cfg, stats, applied, buffer, ip>>

\* variant: the response is sent without set_teid
EchoResponsePacket_no_teid(o_teid) ==
    PacketGenerate(HeaderNew("EchoResponse"), [type |-> "EchoResponse", t_pdu |-> <<>>])

\* the EchoResponse the listener builds: Packet::new, set_teid(o_teid)
EchoResponsePacket(o_teid) ==
    PacketGenerate([HeaderNew("EchoResponse") EXCEPT !.teid = o_teid],
                   [type |-> "EchoResponse", t_pdu |-> <<>>])

\* echo_response.send_to(&self.socket, src_addr): Ok or Err
GtpEchoSend ==
    /\ gtp.pc = "echo_send"
    /\ \E ok \in BOOLEAN :
         gtp' = [gtp EXCEPT
                   !.tx = Append(@, [via |-> "udp", bytes |-> EchoResponsePacket(cfg.o_teid),
                                     to |-> gtp.src_addr, ok |-> ok]),
                   !.pc = IF ok THEN "inc_tx_gtp_echo_response" ELSE "clear",
                   !.phase = IF ok THEN "lock" ELSE "-"]
    /\ UNCHANGED <<cfg, stats, applied, lock, buffer, ip>>

\* Ipv4Packet::new(&m.t_pdu), then transport::transport_channel(..):
\* Err(e) => panic!
GtpGpdu ==
    /\ gtp.pc = "gpdu"
    /\ IF Len(gtp.p.message.t_pdu) < Ipv4MinLen
       THEN gtp' = [gtp EXCEPT !.pc = "clear"]
       ELSE \E chan \in {"Ok", "Err"} :
              gtp' = [gtp EXCEPT !.pc = IF chan = "Ok" THEN "gpdu_send" ELSE "panicked"]
    /\ UNCHANGED <<cfg, stats, applied, lock, buffer, ip>>

\* sender.send_to(inner_ip_packet, dest_ip_address): Ok or Err
GtpGpduSend ==
    /\ gtp.pc = "gpdu_send"
    /\ \E ok \in BOOLEAN :
         gtp' = [gtp EXCEPT
                   !.tx = Append(@, [via |-> "ip", bytes |-> gtp.p.message.t_pdu,
                                     to |-> V4(read_u32(gtp.p.message.t_pdu, 16)),
                                     ok |-> ok]),
                   !.pc = IF ok THEN "inc_tx_ip" ELSE "clear",
                   !.phase = IF ok THEN "lock" ELSE "-"]
    /\ UNCHANGED <<cfg, stats, applied, lock, buffer, ip>>

\* variant: the loop body ends without clearing the buffer
GtpClear_keeps_buffer ==
    /\ gtp.pc = "clear"
    /\ gtp' = [gtp EXCEPT !.pc = "recv"]
    /\ UNCHANGED <<cfg, stats, applied, lock, buffer, ip>>

\* buffer = [0; MTU] at the end of the loop body
GtpClear ==
    /\ gtp.pc = "clear"
    /\ buffer' = Zeros(MTU)
    /\ gtp' = [gtp EXCEPT !.pc = "recv"]
    /\ UNCHANGED <<cfg, stats, applied, lock, ip>>

(***************************************************************************)
(* IpListener::listen and IpListener::send_gtp_packet.                     *)
(***************************************************************************)
IpNew ==
    [pc |-> "idle", phase |-> "-", tmp |-> UsizeOf(0), nrecv |-> 0, frame |-> NoFrame,
     consulted |-> "-", delta |-> 0, tx |-> <<>>, send |-> "-"]

\* addr == ip_packet.get_source(): an IpAddr equals an Ipv4Addr / Ipv6Addr
\* exactly when it is of that family and holds that address
AddrEq(addr, fam, a) == addr.fam = fam /\ addr.a = a

\* the filter cascade for a parsed IP packet of family fam
FilterPacket(c, fam, f) ==
    IF c.src # NoAddr
    THEN [consulted |-> "src", send |-> c.src.fam = fam /\ AddrEq(c.src, fam, f.src)]
    ELSE IF c.dest # NoAddr
    THEN [consulted |-> "dest", send |-> c.dest.fam = fam /\ AddrEq(c.dest, fam, f.dst)]
    ELSE [consulted |-> "none", send |-> FALSE]

\* the body of the receive loop up to the call of send_gtp_packet
FilterFrame(c, f) ==
    IF f.len < EthernetMinLen THEN [consulted |-> "-", send |-> FALSE]
    ELSE CASE f.ethertype = "Ipv4" ->
                IF f.len - EthernetMinLen >= Ipv4MinLen
                THEN FilterPacket(c, "v4", f)
                ELSE [consulted |-> "-", send |-> FALSE]
           [] f.ethertype = "Ipv6" ->
                IF f.len - EthernetMinLen >= Ipv6MinLen
                THEN FilterPacket(c, "v6", f)
                ELSE [consulted |-> "-", send |-> FALSE]
           [] OTHER -> [consulted |-> "-", send |-> FALSE]

\* datalink::channel(..): Ok(Ethernet(tx, rx)), or panic!
IpListen ==
    /\ ip.pc = "idle"
    /\ \E chan \in {"Ethernet", "Other", "Err"} :
         ip' = [ip EXCEPT !.pc = IF chan = "Ethernet" THEN "recv" ELSE "panicked"]
    /\ UNCHANGED <<cfg, stats, applied, lock, buffer, gtp>>

\* rx.next() returns Ok(packet); the frame is filtered
IpRecvOk ==
    /\ ip.pc = "recv"
    /\ ip.nrecv < MaxFrames
    /\ \E f \in Frames :
         LET r == FilterFrame(cfg, f) IN
         ip' = [ip EXCEPT !.frame = f, !.nrecv = @ + 1, !.consulted = r.consulted,
                          !.delta = 0, !.tx = <<>>, !.send = "-",
                          !.pc = IF r.send THEN "send" ELSE "recv"]
    /\ UNCHANGED <<cfg, stats, applied, lock, buffer, gtp>>

\* rx.next() returns Err: the while-let loop ends
IpRecvErr ==
    /\ ip.pc = "recv"
    /\ ip' = [ip EXCEPT !.pc = "terminated"]
    /\ UNCHANGED <<cfg, stats, applied, lock, buffer, gtp>>

\* what becomes of the thread after p.send_to(..).expect(..)
AfterSend(ok) == IF ok THEN "inc_tx_gtp" ELSE "panicked"

\* send_gtp_packet up to the statistics update: attach_packet(..).unwrap(),
\* Packet::send_to (generate into [0; MTU], socket.send_to), .expect(..)
IpSendGtpPacket ==
    /\ ip.pc = "send"
    /\ LET gtp_payload == Payload(ip.frame) IN
       IF gtp_payload.len > MaxTPdu
       THEN ip' = [ip EXCEPT !.pc = "panicked", !.send = "attach_err"]
       ELSE IF 8 + gtp_payload.len > MTU
       THEN ip' = [ip EXCEPT !.pc = "panicked", !.send = "generate_overrun"]
       ELSE \E ok \in BOOLEAN :
              ip' = [ip EXCEPT
                       !.tx = Append(@, [via |-> "udp", type |-> "GPDU",
                                         teid |-> cfg.o_teid, t_pdu |-> gtp_payload,
                                         to |-> <<cfg.peer, GtpPort>>, ok |-> ok]),
                       !.send = IF ok THEN "Ok" ELSE "Err",
                       !.pc = AfterSend(ok),
                       !.phase = IF ok THEN "lock" ELSE "-"]
    /\ UNCHANGED <<cfg, stats, applied, lock, buffer, gtp>>

IpLock ==
    /\ ip.pc = "inc_tx_gtp" /\ ip.phase = "lock"
    /\ \/ /\ CanAcquire(lock)
          /\ lock' = "ip"
          /\ ip' = [ip EXCEPT !.phase = "read"]
       \/ /\ lock = "poisoned"
          /\ lock' = lock
          /\ ip' = [ip EXCEPT !.pc = "panicked", !.phase = "-"]
    /\ UNCHANGED <<cfg, stats, applied, buffer, gtp>>

IpRead ==
    /\ ip.pc = "inc_tx_gtp" /\ ip.phase = "read"
    /\ ip' = [ip EXCEPT !.tmp = stats["tx_gtp"], !.phase = "write"]
    /\ UNCHANGED <<cfg, stats, applied, lock, buffer, gtp>>

IpWrite ==
    /\ ip.pc = "inc_tx_gtp" /\ ip.phase = "write"
    /\ LET r == UsizeAdd(ip.tmp, UsizeOf(1), cfg.build)
       IN IF r.kind = "Panic"
          THEN /\ lock' = "poisoned"
               /\ ip' = [ip EXCEPT !.pc = "panicked", !.phase = "-"]
               /\ UNCHANGED <<stats, applied>>
          ELSE /\ stats' = [stats EXCEPT !["tx_gtp"] = r.value]
               /\ applied' = [applied EXCEPT !["tx_gtp"] = @ + 1]
               /\ ip' = [ip EXCEPT !.phase = "unlock", !.delta = @ + 1]
               /\ UNCHANGED lock
    /\ UNCHANGED <<cfg, buffer, gtp>>

IpUnlock ==
    /\ ip.pc = "inc_tx_gtp" /\ ip.phase = "unlock"
    /\ lock' = "free"
    /\ ip' = [ip EXCEPT !.pc = "recv", !.phase = "-"]
    /\ UNCHANGED <<cfg, stats, applied, buffer, gtp>>

(***************************************************************************)
(* Specifications.                                                         *)
(***************************************************************************)
LIdle ==
    /\ cfg = Config(<<NoAddr, NoAddr>>, "checked")
    /\ stats = StatisticsNew
    /\ applied = NoDelta
    /\ lock = "free"
    /\ buffer = Zeros(MTU)
    /\ gtp = GtpNew
    /\ ip = IpNew

\* the two listeners, constructed over one Statistics, each on its thread
Init ==
    /\ cfg \in Configs
    /\ stats = StatisticsNew
    /\ applied = NoDelta
    /\ lock = "free"
    /\ buffer = Zeros(MTU)
    /\ gtp = GtpNew
    /\ ip = IpNew
    /\ PIdle
    /\ HIdle

GtpNext ==
    \/ GtpListen \/ GtpRecvOk \/ GtpRecvErr \/ GtpParse
    \/ GtpLock \/ GtpRead \/ GtpWrite \/ GtpUnlock
    \/ GtpEchoSend \/ GtpGpdu \/ GtpGpduSend \/ GtpClear

IpNext ==
    \/ IpListen \/ IpRecvOk \/ IpRecvErr \/ IpSendGtpPacket
    \/ IpLock \/ IpRead \/ IpWrite \/ IpUnlock

Next == (GtpNext \/ IpNext) /\ UNCHANGED <<pvars, hvars>>

Spec == Init /\ [][Next]_vars

\* the statistics cell late in a long run: a counter has reached usize::MAX
LongRunCells ==
    { [StatisticsNew EXCEPT !["rx_gtp"] = UsizeMax, !["rx_gtp_echo_request"] = UsizeOf(1),
                            !["tx_gtp_echo_response"] = UsizeOf(1)],
      [StatisticsNew EXCEPT !["tx_gtp"] = UsizeMax] }

\* the two listeners late in a long run, observed from a point at which both
\* are about to receive: the counters hold what the run has accumulated
InitLongRun ==
    /\ cfg \in {Config(<<V4(1), NoAddr>>, build) : build \in BuildKinds}
    /\ stats \in LongRunCells
    /\ applied = NoDelta
    /\ lock = "free"
    /\ buffer = Zeros(MTU)
    /\ gtp = GtpNew
    /\ ip = IpNew
    /\ PIdle
    /\ HIdle

SpecLongRun == InitLongRun /\ [][Next]_vars

\* the decoders applied to a buffer
InitParse == pbuf \in ParseInputs /\ pres = Idle /\ HIdle /\ LIdle

NextParse ==
    (DecodeV1Packet \/ DecodeV1Header \/ DecodeV2Header) /\ UNCHANGED <<hvars, lvars>>

SpecParse == InitParse /\ [][NextParse]_vars

\* a v1 header under push / pop
InitHeader ==
    /\ hdr \in {HeaderNew(t) : t \in MessageTypes}
    /\ hop = [op |-> "new", ret |-> "-"]
    /\ msg = NoMessage
    /\ PIdle
    /\ LIdle

NextHeader ==
    (PushExtensionHeader \/ PopExtensionHeader) /\ UNCHANGED <<msg, pvars, lvars>>

SpecHeader == InitHeader /\ [][NextHeader]_vars

\* a v1 or v2 packet built, mutated, generated and parsed back
InitCodec ==
    /\ \/ \E t \in MessageTypes : hdr = HeaderNew(t) /\ msg = MessageNew(t)
       \/ \E m \in V2Messages : hdr = V2HeaderNew(m.type) /\ msg = m
    /\ hop = [op |-> "new", ret |-> "-"]
    /\ PIdle
    /\ LIdle

NextCodec ==
    (CodecPush \/ CodecPop \/ SetPayloadLength
       \/ EnableSequenceNumber \/ DisableSequenceNumber
       \/ EnableNPduNumber \/ DisableNPduNumber
       \/ AttachPacket \/ GenerateHeader \/ GeneratePacket
       \/ ParseGeneratedHeader \/ ParseGeneratedPacket
       \/ V2SetPayloadLength \/ V2EnableTeid
       \/ SetSenderFTeidForControlPlane \/ SetPgwS5S8ForControlPlane
       \/ PushBearerContextCreated \/ PushBearerContextMarkedForRemoval
       \/ V2GenerateMessage \/ V2GeneratePacket \/ TruncateBuffer \/ V2ParseMessage
       \/ V2ParseGeneratedPacket)
    /\ UNCHANGED lvars

SpecCodec == InitCodec /\ [][NextCodec]_vars

MeiValues ==
    {MeiNew(imei, sv, 0) :
        imei \in {<<1, 2, 3, 4, 5, 6, 7, 8, 9, 1, 2, 3, 4, 5, 6>>,
                  <<0, 0, 4, 9, 0, 1, 5, 4, 2, 0, 3, 2, 3, 7, 5>>,
                  <<3, 5, 2, 0, 9, 9, 0, 0, 1, 7, 6, 1, 4, 8, 1>>},
        sv \in {<<>>, <<1>>}}

\* a Create Session Request built by Message::new, with a second bearer
\* context pushed or not and the MEI field set or not, is generated
GenerateRequest ==
    /\ hop.op = "new"
    /\ \E mei \in {<<>>} \cup {<<m>> : m \in MeiValues}, n \in 1..MaxBearerContexts :
         LET m == [CreateSessionRequestNew(RatTypeNew(6, 0),
                                           FTeidNew(11, U32(4660), <<SampleIpv4>>, <<>>, 0),
                                           SampleBearerContext,
                                           ApnNew(<<97, 46, 98>>, 0))
                       EXCEPT !.mei = mei,
                              !.bearer_contexts_to_be_created =
                                  [i \in 1..n |-> [SampleBearerContext EXCEPT !.instance = 0]]]
         IN /\ msg' = m
            /\ pbuf' = CreateSessionRequestGenerate(m)
    /\ hop' = [op |-> "create_session_request::Message::generate", ret |-> "Some"]
    /\ UNCHANGED <<pres, hdr>>

ParseRequest ==
    /\ hop.op = "create_session_request::Message::generate"
    /\ pres = Idle
    /\ \E build \in BuildKinds :
         pres' = [decoder |-> "create_session_request::Message::parse",
                  result |-> CreateSessionRequestParse(pbuf, build)]
    /\ UNCHANGED <<pbuf, hvars>>

(***************************************************************************)
(* Statistics on its own: the nine *_add functions with any argument.      *)
(***************************************************************************)
MaxAdds == 3

AddAmounts == {UsizeOf(1), UsizeOf(2), [UsizeMax EXCEPT ![8] = 254], UsizeMax}

\* Statistics::new, in a build of either kind
InitStatistics ==
    /\ stats = StatisticsNew
    /\ \E build \in BuildKinds :
         hop = [op |-> "new", ret |-> "-", before |-> UsizeOf(0), n |-> UsizeOf(0),
                count |-> 0, build |-> build]
    /\ hdr = NoHeader
    /\ msg = NoMessage
    /\ PIdle
    /\ cfg = Config(<<NoAddr, NoAddr>>, "checked")
    /\ applied = NoDelta
    /\ lock = "free"
    /\ buffer = Zeros(MTU)
    /\ gtp = GtpNew
    /\ ip = IpNew

\* rx_gtp_add(n) .. tx_ip_add(n): the nine functions differ in the field only
StatisticsAdd ==
    /\ hop.ret # "Panic"
    /\ hop.count < MaxAdds
    /\ \E c \in Counters, n \in AddAmounts :
         /\ stats' = [stats EXCEPT ![c] = UsizeAdd(stats[c], n, hop.build).value]
         /\ hop' = [hop EXCEPT !.op = c, !.ret = UsizeAdd(stats[c], n, hop.build).kind,
                                !.before = stats[c], !.n = n, !.count = @ + 1]
    /\ UNCHANGED <<pvars, hdr, msg, cfg, applied, lock, buffer, gtp, ip>>

SpecStatistics == InitStatistics /\ [][StatisticsAdd]_vars

\* one information element through generate, parse and skip_parsing
InitIE ==
    /\ hdr = NoHeader
    /\ msg = NoMessage
    /\ hop = [op |-> "new", ret |-> "-"]
    /\ PIdle
    /\ LIdle

NextIE ==
    (GenerateIE \/ ParseIE \/ SkipIE \/ GenerateRequest \/ ParseRequest
       \/ ConstructBearerQos \/ ReceiveIE \/ ReceiveRequest)
    /\ UNCHANGED lvars

SpecIE == InitIE /\ [][NextIE]_vars

(***************************************************************************)
(* Properties.                                                             *)
(***************************************************************************)

\* C1: every decoder call returns Some(..) or None, whatever the buffer -
\* it never panics.
C1_DecodersNeverPanic == pres.result.kind \in {"Idle", "Some", "None"}

\* C2: after any sequence of pushes and pops, each non-last element's next
\* type is the type of its successor, the last element's next type is
\* NoMore, and E = 1 exactly when the chain is non-empty; a pop that
\* returned None left the chain empty.
C2_ChainLinked ==
    LET chain == hdr.extension_headers
        n == Len(chain)
    IN /\ \A i \in 1..(n - 1) : chain[i].next = chain[i + 1].type
       /\ n > 0 => chain[n].next = "NoMore"
       /\ hdr.e = 1 <=> n > 0
       /\ hop = [op |-> "pop", ret |-> "None"] => n = 0

C2_Witness ==
    /\ hop = [op |-> "pop", ret |-> "Some"]
    /\ Len(hdr.extension_headers) = 2
    /\ hdr.extension_headers[2].type = "PdcpPduNum"

\* C3: once listen is running, the GTP listener stops only because
\* recv_from returned an error; no datagram and no failure while handling
\* one panics the thread or stalls it.
C3_StopsOnlyOnRecvError == gtp.pc \notin {"panicked", "hung"}

\* C4: no update is lost: each counter equals the number of increments
\* completed on it, and a thread is inside the read-modify-write of an
\* increment only while it holds the statistics lock (so the increments of
\* the two threads never overlap).
C4_NoLostUpdate ==
    /\ \A c \in Counters : stats[c] = UsizeOf(applied[c])
    /\ gtp.phase \in {"read", "write", "unlock"} => lock = "gtp"
    /\ ip.phase \in {"read", "write", "unlock"} => lock = "ip"

C4_Witness ==
    /\ lock = "gtp" /\ gtp.phase = "write"
    /\ ip.pc = "inc_tx_gtp" /\ ip.phase = "lock"
    /\ stats["tx_gtp"] = UsizeOf(1)

\* C5: when the handling of a parsed EchoRequest carrying the inbound TEID
\* is complete, rx_gtp and rx_echo_req each went up by one, exactly one
\* EchoResponse with the outbound TEID was sent to the datagram's source,
\* tx_echo_res went up by one iff that send succeeded, and no other counter
\* moved.
C5_EchoRequestAnswered ==
    (/\ gtp.pc = "clear" /\ gtp.p.kind = "Some"
     /\ gtp.p.message.type = "EchoRequest" /\ gtp.p.header.teid = cfg.i_teid)
    => /\ Len(gtp.tx) = 1
       /\ gtp.tx[1].via = "udp"
       /\ gtp.tx[1].to = gtp.src_addr
       /\ PacketParse(gtp.tx[1].bytes).kind = "Some"
       /\ PacketParse(gtp.tx[1].bytes).message.type = "EchoResponse"
       /\ PacketParse(gtp.tx[1].bytes).header.teid = cfg.o_teid
       /\ gtp.delta = [NoDelta EXCEPT
                         !["rx_gtp"] = 1, !["rx_gtp_echo_request"] = 1,
                         !["tx_gtp_echo_response"] = IF gtp.tx[1].ok THEN 1 ELSE 0]

C5_Witness ==
    /\ gtp.pc = "clear" /\ gtp.p.kind = "Some"
    /\ gtp.p.message.type = "EchoRequest" /\ gtp.p.header.teid = cfg.i_teid
    /\ gtp.src_addr = "B"
    /\ gtp.delta["tx_gtp_echo_response"] = 1

\* C6: when the handling of a parsed datagram whose TEID is not the inbound
\* TEID is complete, rx_ignored_gtp went up by one, no other counter moved
\* and nothing was transmitted, whatever the message type.
C6_ForeignTeidIgnored ==
    (gtp.pc = "clear" /\ gtp.p.kind = "Some" /\ gtp.p.header.teid # cfg.i_teid)
    => /\ gtp.delta = [NoDelta EXCEPT !["rx_ignored_gtp"] = 1]
       /\ gtp.tx = <<>>

C6_Witness ==
    /\ gtp.pc = "clear" /\ gtp.p.kind = "Some" /\ gtp.p.header.teid # cfg.i_teid
    /\ gtp.p.message.type = "EchoRequest"
    /\ stats["rx_ignored_gtp"] = UsizeOf(2)

\* the filter the IP listener is to consult for a frame, and whether it
\* admits the frame's packet
IsIpFrame(f) ==
    /\ f.len >= EthernetMinLen
    /\ \/ f.ethertype = "Ipv4" /\ f.len - EthernetMinLen >= Ipv4MinLen
       \/ f.ethertype = "Ipv6" /\ f.len - EthernetMinLen >= Ipv6MinLen

PacketFamily(f) == IF f.ethertype = "Ipv4" THEN "v4" ELSE "v6"

FilterAdmits(c, f) ==
    /\ IsIpFrame(f)
    /\ IF c.src # NoAddr THEN c.src = [fam |-> PacketFamily(f), a |-> f.src]
       ELSE IF c.dest # NoAddr THEN c.dest = [fam |-> PacketFamily(f), a |-> f.dst]
       ELSE FALSE

\* C7: when the handling of a captured frame is over, one GPDU (T-PDU = the
\* frame's IP packet, TEID = outbound TEID, to (peer, 2152)) has been sent
\* and tx_gtp has gone up by one if the consulted filter admits the packet;
\* otherwise nothing has been sent and tx_gtp has not moved.
C7_FilterDecidesSend ==
    (ip.nrecv > 0 /\ ip.pc \in {"recv", "terminated", "panicked"})
    => IF FilterAdmits(cfg, ip.frame)
       THEN /\ Len(ip.tx) = 1
            /\ ip.tx[1].type = "GPDU"
            /\ ip.tx[1].t_pdu = Payload(ip.frame)
            /\ ip.tx[1].teid = cfg.o_teid
            /\ ip.tx[1].to = <<cfg.peer, GtpPort>>
            /\ ip.delta = 1
       ELSE ip.tx = <<>> /\ ip.delta = 0

\* what the handling of the current datagram must have done once complete
EffectsDone(g, c) ==
    LET only(d) == g.delta = d IN
    IF g.p.kind # "Some" THEN only(NoDelta) /\ g.tx = <<>>
    ELSE IF g.p.header.teid # c.i_teid
    THEN only([NoDelta EXCEPT !["rx_ignored_gtp"] = 1]) /\ g.tx = <<>>
    ELSE CASE g.p.message.type = "EchoRequest" ->
                /\ Len(g.tx) = 1
                /\ only([NoDelta EXCEPT
                           !["rx_gtp"] = 1, !["rx_gtp_echo_request"] = 1,
                           !["tx_gtp_echo_response"] = IF g.tx[1].ok THEN 1 ELSE 0])
           [] g.p.message.type = "GPDU" /\ Len(g.p.message.t_pdu) >= Ipv4MinLen ->
                /\ Len(g.tx) = 1
                /\ only([NoDelta EXCEPT
                           !["rx_gtp"] = 1, !["tx_ip"] = IF g.tx[1].ok THEN 1 ELSE 0])
           [] OTHER -> only([NoDelta EXCEPT !["rx_gtp"] = 1]) /\ g.tx = <<>>

\* C8: datagrams are handled in arrival order: a datagram is read from the
\* socket only when every effect of the previous one (its counter updates,
\* its EchoResponse or inner-IP transmission) has happened and the listener
\* is outside any increment; counters and transmissions of a datagram only
\* accumulate until then.
C8_ArrivalOrder ==
    [][ /\ gtp'.nrecv # gtp.nrecv
          => /\ gtp'.nrecv = gtp.nrecv + 1
             /\ gtp.pc = "recv" /\ gtp.phase = "-" /\ lock # "gtp"
             /\ gtp.nrecv > 0 => EffectsDone(gtp, cfg)
        /\ (gtp'.nrecv = gtp.nrecv /\ (gtp'.delta # gtp.delta \/ gtp'.tx # gtp.tx))
          => gtp.pc \notin {"idle", "recv", "terminated"} ]_vars

C8_Witness ==
    /\ gtp.nrecv = 2 /\ gtp.pc = "parse"
    /\ stats["tx_gtp_echo_response"] = UsizeOf(1)

C10_FailedSendSurvived ==
    ip.send = "Err" => ip.pc \in {"recv", "terminated"} /\ ip.delta = 0

\* the sum over the chain of 4 times the length octet each extension encodes
RECURSIVE SumEncodedLengths(_)
SumEncodedLengths(chain) ==
    IF chain = <<>> THEN 0
    ELSE 4 * ExtensionHeaderGenerate(Head(chain))[1] + SumEncodedLengths(Tail(chain))

\* C12: for every v1 Header state (any payload_length, any S and PN, any
\* chain built by push / pop) Header::generate writes the length field
\* payload_length + 2 if S + 1 if PN + 1 if E + the sum over the chain of
\* 4 times each extension's encoded length octet.
C12_LengthFieldFormula ==
    hop.op = "Header::generate" =>
        /\ hop.ret = "Some"
        /\ read_u16(pbuf, 2) =
             hdr.payload_length + (IF hdr.s = 1 THEN 2 ELSE 0)
               + (IF hdr.pn = 1 THEN 1 ELSE 0) + (IF hdr.e = 1 THEN 1 ELSE 0)
               + SumEncodedLengths(hdr.extension_headers)

\* the extension types the chain of a header may hold
SupportedExtensionTypes ==
    {"MbmsSi", "MsInfoChange", "UDPPort", "LongPdcpPduNumber", "PdcpPduNum",
     "SuspendReq", "SuspendRes"}

\* C15: for every v1 header whose chain is made of supported extension
\* headers, Header::parse of the octets Header::generate wrote returns a
\* header with the same chain (length, types in order, field values) and
\* reports as consumed exactly the octets generate wrote.
C15_HeaderRoundTrip ==
    (/\ hop.op = "Header::generate"
     /\ pres.decoder = "v1::Header::parse"
     /\ \A i \in 1..Len(hdr.extension_headers) :
          hdr.extension_headers[i].type \in SupportedExtensionTypes)
    => /\ pres.result.kind = "Some"
       /\ pres.result.header.extension_headers = hdr.extension_headers
       /\ pres.result.pos = Len(pbuf)

\* the type octets of the extension-header catalog
CatalogTypeOctets == {0, 1, 2, 64, 130, 192, 193, 194}

\* pos is the index of a next-type octet: is it, or the trailing next-type
\* octet of an extension further down the chain, outside the catalog?
RECURSIVE UnknownTypeFrom(_, _)
UnknownTypeFrom(buf, pos) ==
    IF ~Has(buf, pos + 1) THEN FALSE
    ELSE IF At(buf, pos) \notin CatalogTypeOctets THEN TRUE
    ELSE IF At(buf, pos) = 0 THEN FALSE
    ELSE IF ~Has(buf, pos + 2) THEN FALSE
    ELSE IF At(buf, pos + 1) = 0 THEN FALSE
    ELSE IF ~Has(buf, pos + 1 + 4 * At(buf, pos + 1)) THEN FALSE
    ELSE UnknownTypeFrom(buf, pos + 4 * At(buf, pos + 1))

\* a GTPv1 header with E = 1 whose chain names an unknown extension type
HasUnknownExtensionType(buf) ==
    /\ Has(buf, 8)
    /\ parse_flags(At(buf, 0)).version = 1
    /\ parse_flags(At(buf, 0)).pt = 1
    /\ parse_flags(At(buf, 0)).e = 1
    /\ At(buf, 1) \in {1, 2, 16, 255}
    /\ UnknownTypeFrom(buf, 8 + 2 * parse_flags(At(buf, 0)).s + parse_flags(At(buf, 0)).pn)

\* C16: v1 Header::parse returns None whenever the header's next-type
\* octet, or the trailing next-type octet of an extension in the chain, is
\* not a known extension type.
C16_UnknownExtensionTypeRejected ==
    (pres.decoder = "v1::Header::parse" /\ HasUnknownExtensionType(pbuf))
    => pres.result.kind = "None"

\* C18: skip_parsing returns exactly 4 + L, without wrap-around, for every
\* declared length L in 0..65535, so the position it is added to moves
\* forward by at least 4 octets.
C18_SkipReturnsFourPlusLength ==
    pres.decoder = "v2::InformationElement::skip_parsing"
        => /\ pres.result.kind = "Some"
           /\ pres.result.pos = 4 + read_u16(pbuf, 1)
           /\ pres.result.pos >= 4

\* an IE generated and parsed back
IEParsedBack(ie_type) ==
    /\ hop.op = "InformationElement::generate"
    /\ msg.ie = ie_type
    /\ pres.decoder = "v2::InformationElement::parse"

\* C19: a Bearer-QoS value accepted by the constructor, generated and parsed
\* back, is returned equal field by field (the same PCI and PVI among them),
\* with 26 octets reported consumed.
C19_BearerQosRoundTrip ==
    IEParsedBack("BearerQoS")
        => /\ pres.result.kind = "Some"
           /\ pres.result.ie = msg
           /\ pres.result.pos = 26

\* C20: an F-TEID value of any interface type 0..40 and any address
\* combination, generated and parsed back, is returned with the same
\* interface type, TEID, addresses and instance.
C20_FTeidRoundTrip ==
    IEParsedBack("FTEID")
        => /\ pres.result.kind = "Some"
           /\ pres.result.ie.interface_type = msg.interface_type
           /\ pres.result.ie.teid = msg.teid
           /\ pres.result.ie.ipv4_address = msg.ipv4_address
           /\ pres.result.ie.ipv6_address = msg.ipv6_address
           /\ pres.result.ie.instance = msg.instance

\* the v1 length field for a message of this length under the current flags
\* and extension chain
V1LengthFieldFor(message_length) ==
    message_length + (IF hdr.s = 1 THEN 2 ELSE 0)
        + (IF hdr.pn = 1 THEN 1 ELSE 0) + (IF hdr.e = 1 THEN 1 ELSE 0)
        + SumEncodedLengths(hdr.extension_headers)

\* the v2 length field for a message of this length under the current flags
V2LengthFieldFor(message_length) ==
    message_length + 3 + (IF hdr.t = 1 THEN 4 ELSE 0) + 1

\* C11: for v1 and v2 packets, after any sequence of setters, pushes, pops
\* and attach_packet and whatever payload length was stored before,
\* Packet::generate leaves the header's payload length equal to the current
\* message's length() and writes the length field computed from that value and
\* the current flags / extension chain.
C11_GenerateRestampsLength ==
    /\ hop = [op |-> "Packet::generate", ret |-> "Some"]
         => /\ hdr.payload_length = MessageLength(msg)
            /\ read_u16(pbuf, 2) = V1LengthFieldFor(MessageLength(msg))
    /\ hop.op = "v2::Packet::generate"
         => /\ hdr.payload_length = CreateSessionResponseLength(msg)
            /\ read_u16(pbuf, 2) = V2LengthFieldFor(CreateSessionResponseLength(msg))

\* a v1 G-PDU packet generated with a T-PDU attached and an extension chain:
\* the length the constructor stored (0) is not the one written
C11_Witness ==
    /\ hop = [op |-> "Packet::generate", ret |-> "Some"]
    /\ MessageLength(msg) > 0
    /\ Len(hdr.extension_headers) > 0
    /\ read_u16(pbuf, 2) > MessageLength(msg)

\* C13: a CreateSessionResponse (the CreateSessionRequest parser ends with the
\* same test) that is encoded and decoded yields Some when every mandatory IE
\* is present - the cause, which is always there, and at least one bearer
\* context created, as Message::new builds it - and None only when one is
\* absent.
C13_MandatoryPresentDecodes ==
    (hop.op = "v2::Message::generate" /\ pres.decoder = "v2::Message::parse")
        => IF Len(msg.bearer_contexts_created) >= 1
           THEN pres.result.kind = "Some"
           ELSE pres.result.kind = "None"

\* C14: for every v2 message value, with any combination of its optional IEs,
\* generate writes exactly length() octets.
C14_GenerateWritesLength ==
    hop.op = "v2::Message::generate" => Len(pbuf) = CreateSessionResponseLength(msg)

\* C17: when the last IE of a message extends past the end of the buffer, the
\* message parse still completes, returning Some or None.
C17_OverrunIsSkipped ==
    (hop.op = "truncated" /\ pres.decoder = "v2::Message::parse")
        => pres.result.kind \in {"Some", "None"}

\* C21: the v2 message-type octet 33 decodes to CreateSessionResponse, so the
\* packet generated from a CreateSessionResponse parses back with a header of
\* that type and, when the message carries what its own decoder asks for
\* (two bearer contexts), as a CreateSessionResponse message.
C21_ResponseParsedAsResponse ==
    (hop.op = "v2::Packet::generate" /\ pres.decoder = "v2::Packet::parse")
        => /\ V2HeaderParse(pbuf).kind = "Some"
           /\ V2HeaderParse(pbuf).header.message_type = "CreateSessionResponse"
           /\ Len(msg.bearer_contexts_created) > 1
                => /\ pres.result.kind = "Some"
                   /\ pres.result.message.type = "CreateSessionResponse"

\* C23: in both versions Packet::parse, applied to the octets Packet::generate
\* wrote, reports as consumed exactly the number of octets written, header
\* and message together.
C23_ParseReportsOctetsWritten ==
    /\ (hop.op = "Packet::generate" /\ pres.decoder = "v1::Packet::parse"
           /\ pres.result.kind = "Some")
        => pres.result.pos = Len(pbuf)
    /\ (hop.op = "v2::Packet::generate" /\ pres.decoder = "v2::Packet::parse"
           /\ pres.result.kind = "Some")
        => pres.result.pos = Len(pbuf)

\* C22: an IE whose type octet is 75 is decoded as an MEI: the MEI generated
\* inside a CreateSessionRequest is decoded as an MEI IE and, the message
\* carrying what its decoder asks for (two bearer contexts), comes back in the
\* mei slot of the decoded message.
C22_MeiDecodedAsMei ==
    (/\ hop.op = "create_session_request::Message::generate"
     /\ pres.decoder = "create_session_request::Message::parse" /\ msg.mei # <<>>)
        => /\ \A build \in BuildKinds :
                /\ InformationElementParse(pbuf, build).kind = "Some"
                /\ InformationElementParse(pbuf, build).ie.ie = "MEI"
           /\ Len(msg.bearer_contexts_to_be_created) > 1
                => /\ pres.result.kind = "Some"
                   /\ pres.result.message.mei = msg.mei

\* the order of usize values: a <= b
UsizeLeq(a, b) ==
    \/ a = b
    \/ \E i \in 1..8 : a[i] < b[i] /\ \A j \in 1..(i - 1) : a[j] = b[j]

\* C24: every *_add returns, never lowers its counter, and leaves it at
\* min(v + n, usize::MAX): the sum when it fits, usize::MAX when it does not.
C24_CountersSaturate ==
    hop.op \in Counters
        => /\ hop.ret = "Some"
           /\ UsizeLeq(hop.before, stats[hop.op])
           /\ stats[hop.op] = IF UsizeCarry(hop.before, hop.n, 1) = 1 THEN UsizeMax
                               ELSE UsizeAdd(hop.before, hop.n, "wrapping").value

\* the phases of an increment in which the guard is held
Holding == {"read", "write", "unlock"}

\* C25: the statistics lock is held only for one counter increment: its
\* holder is inside an increment and can always take its next step towards
\* the release (no deadlock); while it holds the lock it receives, parses
\* and sends nothing, it writes one counter once, and its step after the
\* write releases the lock.
C25_LockHeldForOneIncrement ==
    /\ [](/\ lock = "gtp" => /\ gtp.pc \in GtpIncPcs /\ gtp.phase \in Holding
                              /\ ENABLED (GtpRead \/ GtpWrite \/ GtpUnlock)
          /\ lock = "ip" => /\ ip.pc = "inc_tx_gtp" /\ ip.phase \in Holding
                             /\ ENABLED (IpRead \/ IpWrite \/ IpUnlock))
    /\ [][ /\ lock = "gtp"
              => /\ buffer' = buffer /\ gtp'.nrecv = gtp.nrecv
                 /\ gtp'.p = gtp.p /\ gtp'.tx = gtp.tx
                 /\ stats' # stats => gtp.phase = "write" /\ gtp'.phase = "unlock"
                 /\ (gtp.phase = "unlock" /\ gtp' # gtp) => lock' = "free"
           /\ lock = "ip"
              => /\ ip'.nrecv = ip.nrecv /\ ip'.frame = ip.frame /\ ip'.tx = ip.tx
                 /\ stats' # stats => ip.phase = "write" /\ ip'.phase = "unlock"
                 /\ (ip.phase = "unlock" /\ ip' # ip) => lock' = "free" ]_vars

C25_Witness ==
    /\ lock = "ip" /\ ip.phase = "unlock"
    /\ gtp.pc = "inc_tx_gtp_echo_response" /\ gtp.phase = "lock"

\* a + b <= c, the sum taken in the integers
UsizeSumLeq(a, b, c) ==
    UsizeCarry(a, b, 1) = 0 /\ UsizeLeq(UsizeAdd(a, b, "wrapping").value, c)

\* C28: at every moment tx_echo_res <= rx_echo_req and
\* rx_echo_req + tx_ip <= rx_gtp, and the increments of rx_gtp and
\* rx_ignored_gtp never exceed the datagrams received.
C28_CounterInequalities ==
    /\ UsizeLeq(stats["tx_gtp_echo_response"], stats["rx_gtp_echo_request"])
    /\ UsizeSumLeq(stats["rx_gtp_echo_request"], stats["tx_ip"], stats["rx_gtp"])
    /\ applied["rx_gtp"] + applied["rx_ignored_gtp"] <= gtp.nrecv

Stopped == {"terminated", "panicked", "hung"}

\* C30: a listener never stops while it holds the statistics lock, the lock
\* is never left held or poisoned, and a listener that reaches an increment
\* after the other has stopped finds the lock free.
C30_NeverStopsHoldingLock ==
    /\ lock # "poisoned"
    /\ gtp.pc \in Stopped => lock # "gtp"
    /\ ip.pc \in Stopped => lock # "ip"
    /\ (gtp.pc \in Stopped /\ ip.pc = "inc_tx_gtp" /\ ip.phase = "lock") => lock = "free"
    /\ (ip.pc \in Stopped /\ gtp.pc \in GtpIncPcs /\ gtp.phase = "lock") => lock = "free"

\* C26: every decoder call ends: no loop of a decoder (the v1 extension
\* chain, the IE loops of a v2 message and of a Bearer Context) repeats an
\* iteration without advancing the read position.
C26_DecodersTerminate == pres.result.kind # "Hang"

\* C27: decoding a Bearer Context that is followed by other IEs of the
\* enclosing message gives what decoding the container's own 4 + declared
\* length octets gives: the same fields, and the same verdict on its
\* mandatory EBI and Bearer-QoS.
C27_BearerContextOwnOctetsOnly ==
    (/\ hop.op = "received" /\ pres.decoder = "v2::InformationElement::parse"
     /\ At(pbuf, 0) = 93 /\ Len(pbuf) >= 4 + read_u16(pbuf, 1))
        => pres.result = InformationElementParse(SubSeq(pbuf, 1, 4 + read_u16(pbuf, 1)), hop.ret)

ECGIMax == 268435455
MeNBIDMax == 1048575
EMeNBIDMax == 2097151

\* C29: Bearer-QoS::new returns Ok exactly for arguments inside the ranges
\* and creates no value otherwise, and no decoder returns a Bearer-QoS, ECGI,
\* MeNBID or EMeNBID outside its range.
C29_ValuesWithinBounds ==
    /\ hop.op = "bearer_qos::InformationElement::new"
         => /\ hop.ret = "Ok" <=> /\ hop.pl <= 15 /\ hop.instance <= 15
                                  /\ \A v \in hop.bitrates : ~ExceedsMaxBitrate(v)
            /\ hop.ret # "Ok" => msg = NoIE
    /\ (pres.decoder = "v2::InformationElement::parse" /\ pres.result.kind = "Some")
         => LET ie == pres.result.ie IN
            /\ ie.ie = "BearerQoS"
                 => /\ ie.pl <= 15
                    /\ \A v \in {ie.max_ul_bitrate, ie.max_dl_bitrate,
                                  ie.guaranteed_ul_bitrate, ie.guaranteed_dl_bitrate} :
                          ~ExceedsMaxBitrate(v)
            /\ ie.ie = "ULI"
                 => /\ ie.locations[5] # <<>> => ie.locations[5][1].id <= ECGIMax
                    /\ ie.locations[7] # <<>> => ie.locations[7][1].id <= MeNBIDMax
                    /\ ie.locations[8] # <<>> => ie.locations[8][1].id <= EMeNBIDMax
====
